---- MODULE Spec2Model ----
(***************************************************************************)
(* Model of the document ingestion engine of the book library              *)
(* (src/unnamed/part_003): parseBook and the parsers it dispatches to,     *)
(* with the archive, the XML documents and the PDF library as inputs.      *)
(* JavaScript strings are TLA+ strings; arrays are sequences.              *)
(***************************************************************************)
EXTENDS Integers, Sequences, FiniteSets, TLC

Null == "<null>"

\* ------------------------------------------------------------------------
\* Bounds of the model
\* ------------------------------------------------------------------------
MaxSegs == 3
MaxSpine == 3

\* ------------------------------------------------------------------------
\* JavaScript string and array primitives used by the source.  JavaScript
\* evaluates an argument once, before the call: a primitive that uses an
\* argument more than once takes it through a local function, whose
\* argument is a value
\* ------------------------------------------------------------------------
CharAt(s, i) == SubSeq(s, i, i)

RECURSIVE SplitAcc(_, _, _, _, _)
SplitAcc(s, sep, i, cur, acc) ==
  LET step[k \in Nat, c \in STRING, a \in Seq(STRING)] ==
        IF k > Len(s) THEN Append(a, c)
        ELSE IF CharAt(s, k) = sep
             THEN SplitAcc(s, sep, k + 1, "", Append(a, c))
             ELSE SplitAcc(s, sep, k + 1, c \o CharAt(s, k), a)
  IN step[i, cur, acc]

\* String.prototype.split with a one-character separator
Split(s, sep) ==
  LET split[str \in STRING] == SplitAcc(str, sep, 1, "", <<>>)
  IN split[s]

RECURSIVE Join(_, _)
\* Array.prototype.join
Join(arr, sep) ==
  LET join[a \in Seq(STRING)] ==
        IF Len(a) = 0 THEN ""
        ELSE IF Len(a) = 1 THEN a[1]
        ELSE a[1] \o sep \o Join(Tail(a), sep)
  IN join[arr]

\* Array.prototype.pop, as the array that is left (no-op on the empty array)
Pop(arr) ==
  LET pop[a \in Seq(STRING)] == IF Len(a) = 0 THEN a ELSE SubSeq(a, 1, Len(a) - 1)
  IN pop[arr]

\* the value Array.prototype.pop returns (undefined on the empty array)
Last(arr) ==
  LET last[a \in Seq(STRING)] == IF Len(a) = 0 THEN Null ELSE a[Len(a)]
  IN last[arr]

StartsWith(s, p) ==
  \E str \in {s} : Len(str) >= Len(p) /\ SubSeq(str, 1, Len(p)) = p

EndsWith(s, p) ==
  \E str \in {s} : Len(str) >= Len(p) /\ SubSeq(str, Len(str) - Len(p) + 1, Len(str)) = p

Includes(s, sub) ==
  \E str \in {s} :
     \E i \in 1..(Len(str) + 1) :
        i + Len(sub) - 1 <= Len(str) /\ SubSeq(str, i, i + Len(sub) - 1) = sub

UpperChars == "ABCDEFGHIJKLMNOPQRSTUVWXYZ"
LowerChars == "abcdefghijklmnopqrstuvwxyz"

ToLowerChar(c) ==
  LET lower[ch \in STRING] ==
        IF \E i \in 1..Len(UpperChars) : CharAt(UpperChars, i) = ch
        THEN CharAt(LowerChars, CHOOSE i \in 1..Len(UpperChars) : CharAt(UpperChars, i) = ch)
        ELSE ch
  IN lower[c]

RECURSIVE ToLowerCase(_)
ToLowerCase(s) ==
  LET lower[str \in STRING] ==
        IF Len(str) = 0 THEN "" ELSE ToLowerChar(CharAt(str, 1)) \o ToLowerCase(Tail(str))
  IN lower[s]

\* s.replace(/<suffix>$/i, ""): drop a case-insensitive literal suffix
StripSuffixI(s, suffix) ==
  LET strip[str \in STRING] ==
        IF EndsWith(ToLowerCase(str), suffix)
        THEN SubSeq(str, 1, Len(str) - Len(suffix))
        ELSE str
  IN strip[s]

\* s.lastIndexOf(c), 0-based, -1 when absent
LastIndexOf(s, c) ==
  LET lastIndex[str \in STRING] ==
        IF \E i \in 1..Len(str) : CharAt(str, i) = c
        THEN (CHOOSE i \in 1..Len(str) :
                 CharAt(str, i) = c /\ \A j \in (i + 1)..Len(str) : CharAt(str, j) # c) - 1
        ELSE -1
  IN lastIndex[s]

\* ------------------------------------------------------------------------
\* resolvePath (part_003:26-39)
\* ------------------------------------------------------------------------
RECURSIVE ApplyPartsKeepingDot(_, _)
\* variant: only '..' is special, a '.' part is pushed like a name
ApplyPartsKeepingDot(stack, parts) ==
  LET apply[st \in Seq(STRING), ps \in Seq(STRING)] ==
        IF Len(ps) = 0 THEN st
        ELSE LET part == Head(ps) IN
             IF part = ".." THEN ApplyPartsKeepingDot(Pop(st), Tail(ps))
             ELSE ApplyPartsKeepingDot(Append(st, part), Tail(ps))
  IN apply[stack, parts]

RECURSIVE ApplyParts(_, _)
\* the for loop over the parts of the relative reference
ApplyParts(stack, parts) ==
  LET apply[st \in Seq(STRING), ps \in Seq(STRING)] ==
        IF Len(ps) = 0 THEN st
        ELSE LET part == Head(ps) IN
             IF part = "." THEN ApplyParts(st, Tail(ps))
             ELSE IF part = ".." THEN ApplyParts(Pop(st), Tail(ps))
             ELSE ApplyParts(Append(st, part), Tail(ps))
  IN apply[stack, parts]

resolvePath(base, relative) ==
  Join(ApplyParts(Pop(Split(base, "/")), Split(relative, "/")), "/")

\* ------------------------------------------------------------------------
\* Inputs: the file handed to parseBook.  A file is a name and a body; the
\* body is described by a small record from which the archive entries, the
\* XML documents and the PDF document are derived.
\* ------------------------------------------------------------------------
PathPool == {"a", "b", "c.html"}
RelPool == {".", "..", "", "x"}

\* sequences over S of length 1..n
SeqsUpTo(S, n) == UNION {[1..k -> S] : k \in 1..n}

\* sequences over S of length 0..n
SeqsFrom0(S, n) == UNION {[1..k -> S] : k \in 0..n}

BasePaths == {Join(segs, "/") : segs \in SeqsUpTo(PathPool, MaxSegs)}
RelRefs == {Join(segs, "/") : segs \in SeqsUpTo(RelPool, MaxSegs)}

ContainerPath == "META-INF/container.xml"

\* the package path a container variant names (full-path of its rootfile)
OpfPathOf(z) ==
  CASE z.container = "nopath" -> Null
    [] z.container = "root" -> "content.opf"
    [] OTHER -> "OEBPS/content.opf"

\* directory of the package inside the archive
Prefix(z) == IF z.container = "root" THEN "" ELSE "OEBPS/"

Item(id, href, mediaType, properties) ==
  [id |-> id, href |-> href, mediaType |-> mediaType, properties |-> properties]

Xhtml == "application/xhtml+xml"

ChapterItems ==
  << Item("ch1", "text/ch1.html", Xhtml, Null),
     Item("ch2", "text/ch2.html", Xhtml, Null),
     Item("ch3", "text/ch3.html", Xhtml, Null),
     Item("ch4", "text/ch4.html", Xhtml, Null),
     Item("ch5", "text/ch5.html", Xhtml, Null),
     Item("ch6", "text/ch1.html#top", Xhtml, Null),
     Item("ch7", "text/ch2.html?rev=2", Xhtml, Null),
     Item("ch8", "extra/ch1.html", Xhtml, Null),
     Item("nohref", Null, Xhtml, Null) >>

MetaCoverItems ==
  << Item("cov-a", "images/a.png", "image/png", Null),
     Item("cov-nohref", Null, "image/png", Null),
     Item("cov-gone", "images/gone.png", "image/png", Null),
     Item("cov-bad", "images/bad.jpg", "image/jpeg", Null) >>

PropCoverItems(cv) ==
  CASE cv.prop = "ok" -> << Item("img-b", "images/b.jpg", "image/jpeg", "nav cover-image") >>
    [] cv.prop = "nofile" -> << Item("img-b", "images/lost.jpg", "image/jpeg", "cover-image") >>
    [] OTHER -> << >>

IdCoverItems(cv) ==
  IF cv.byId
  THEN << Item("cover-page", "text/cover.html", Xhtml, Null),
          Item("MyCover", "images/c.png", "image/png", Null) >>
  ELSE << >>

NcxItems(z) ==
  IF z.ncx = "none" THEN << >>
  ELSE << Item("ncx", "toc.ncx", "application/x-dtbncx+xml", Null) >>

\* content attribute of <meta name="cover"> (Null: no such element)
CoverMetaOf(cv) ==
  CASE cv.meta = "named" -> "cov-a"
    [] cv.meta = "ghost" -> "no-such-id"
    [] cv.meta = "nohref" -> "cov-nohref"
    [] cv.meta = "absent" -> "cov-gone"
    [] cv.meta = "corrupt" -> "cov-bad"
    [] OTHER -> Null

\* the parsed package document
OpfDoc(z) ==
  [ title |-> CASE z.meta \in {"full", "noauthor"} -> "Moby Dick"
                [] z.meta = "blank" -> ""
                [] OTHER -> Null,
    creator |-> CASE z.meta \in {"full", "notitle"} -> "H. Melville"
                  [] z.meta = "blank" -> ""
                  [] OTHER -> Null,
    coverMeta |-> CoverMetaOf(z.cover),
    manifest |-> ChapterItems \o MetaCoverItems \o IdCoverItems(z.cover)
                   \o PropCoverItems(z.cover) \o NcxItems(z),
    spine |-> z.spine ]

Img(src) == [src |-> src, style |-> Null]

\* the parsed chapter documents: their <img> and <a> elements
Ch1Doc == [imgs |-> << Img("../images/fig.png"), Img("http://ex.org/a.png") >>,
           links |-> << TRUE, FALSE >>]
Ch2Doc == [imgs |-> << Img("gone.png"), Img("../images/bad.gif"),
                       Img("./pic.GIF?v=2#top"), Img("data:image/png;base64,AAAA"),
                       Img(Null) >>,
           links |-> << >>]
Ch3Doc == [imgs |-> << Img("httpdocs/d.webp"), Img("../images/vec.svg") >>,
           links |-> << TRUE >>]

NavPoint(label, src, points) == [label |-> label, src |-> src, points |-> points]

\* the parsed navigation document: the navPoint children of its navMap
NcxDoc(z) ==
  IF z.ncx = "flat"
  THEN << NavPoint("One", "text/ch1.html", << >>), NavPoint("Two", "text/ch2.html#s1", << >>) >>
  ELSE IF z.ncx = "frag"
  THEN << NavPoint("Top", "../OEBPS/text/ch3.html#top", << >>),
          NavPoint("Sec", "text/ch1.html#sec/1", << >>) >>
  ELSE << NavPoint("Part I", "text/ch1.html",
                   << NavPoint("One", "text/ch1.html#a",
                               << NavPoint("One.a", "text/ch1.html#a1", << >>) >>),
                      NavPoint(Null, "ch2.html", << >>) >>),
          NavPoint("Part II", Null, << NavPoint("Three", "text/ch3.html", << >>) >>),
          NavPoint("Appendix", Null, << >>) >>

Entry(kind, corrupt, data) == [kind |-> kind, corrupt |-> corrupt, data |-> data]

\* paths of the entries below the package directory, relative to it
PackagePaths(z) ==
  { "text/ch1.html", "text/ch2.html", "text/ch3.html", "text/ch5.html", "text/pic.GIF",
    "extra/ch1.html",
    "text/httpdocs/d.webp", "images/fig.png", "images/bad.gif", "images/vec.svg",
    "images/a.png", "images/b.jpg", "images/c.png", "images/bad.jpg" }
  \cup (IF z.opf = "missing" THEN {} ELSE {"content.opf"})
  \cup (IF z.ncx \in {"none", "nofile"} THEN {} ELSE {"toc.ncx"})

\* the entry at a path of PackagePaths: its kind, whether reading it fails,
\* and what reading it gives (a parsed document, or base64 image data)
PackageEntry(z, rel) ==
  CASE rel = "content.opf" -> Entry("opf", FALSE, OpfDoc(z))
    [] rel = "toc.ncx" -> Entry("ncx", FALSE, NcxDoc(z))
    [] rel = "text/ch1.html" -> Entry("html", FALSE, Ch1Doc)
    [] rel = "text/ch2.html" -> Entry("html", FALSE, Ch2Doc)
    [] rel = "text/ch3.html" -> Entry("html", FALSE, Ch3Doc)
    [] rel = "text/ch5.html" -> Entry("html", TRUE, Ch1Doc)
    [] rel = "extra/ch1.html" -> Entry("html", FALSE, Ch3Doc)
    [] rel = "text/pic.GIF" -> Entry("image", FALSE, "R0lG")
    [] rel = "text/httpdocs/d.webp" -> Entry("image", FALSE, "UklG")
    [] rel = "images/fig.png" -> Entry("image", FALSE, "iVBO")
    [] rel = "images/bad.gif" -> Entry("image", TRUE, "R0lG")
    [] rel = "images/vec.svg" -> Entry("image", FALSE, "PHN2")
    [] rel = "images/a.png" -> Entry("image", FALSE, "QQ==")
    [] rel = "images/b.jpg" -> Entry("image", FALSE, "Qg==")
    [] rel = "images/c.png" -> Entry("image", FALSE, "Qw==")
    [] rel = "images/bad.jpg" -> Entry("image", TRUE, "/9j/")

\* the part of an archive path below the package directory
BelowPrefix(z, path) == SubSeq(path, Len(Prefix(z)) + 1, Len(path))

\* zip.file(path) is not null
HasFile(z, path) ==
  \/ path = ContainerPath /\ z.container # "missing"
  \/ StartsWith(path, Prefix(z)) /\ BelowPrefix(z, path) \in PackagePaths(z)

\* zip.file(path), for a path the archive has
ZipFile(z, path) ==
  IF path = ContainerPath THEN Entry("container", FALSE, [fullPath |-> OpfPathOf(z)])
  ELSE PackageEntry(z, BelowPrefix(z, path))

Cover(meta, prop, byId) == [meta |-> meta, prop |-> prop, byId |-> byId]

Zip(container, opf, meta, cover, ncx, spine) ==
  [kind |-> "zip", container |-> container, opf |-> opf, meta |-> meta,
   cover |-> cover, ncx |-> ncx, spine |-> spine]

NoCover == Cover("none", "none", FALSE)

SpinePool == {"ch1", "ch2", "ghost"}
Spines ==
  SeqsFrom0(SpinePool, MaxSpine)
  \cup { <<"nohref", "ch1">>, <<"ch4", "ch3">>, <<"ch3", "ch4", "ch1">>, <<"ch3", "ch3">>,
         <<"ch5">>, <<"ch1", "ch5">>, <<"ch5", "ghost", "ch2">>, <<"ch2", "ch3", "ch5">>,
         <<"ghost", "ch4", "ch1">>, <<"ch6", "ch1">>, <<"ch7">>,
         <<"ch1", "ch8">> }

CoverVariants ==
  {Cover(m, p, b) : m \in {"none", "named", "ghost", "nohref", "absent", "corrupt"},
                    p \in {"none", "ok", "nofile"}, b \in BOOLEAN}

ZipBodies ==
  {Zip(c, o, "full", NoCover, "flat", <<"ch1">>) :
      c \in {"ok", "root", "missing", "nopath"}, o \in {"ok", "missing"}}
  \cup {Zip("ok", "ok", m, cv, "none", <<"ch3">>) : m \in {"full", "none"}, cv \in CoverVariants}
  \cup {Zip("ok", "ok", "none", Cover("named", "ok", TRUE), n, <<"ch1", "ch3">>) :
          n \in {"none", "nofile", "flat", "tree", "frag"}}
  \cup {Zip("ok", "ok", "full", NoCover, "none", s) : s \in Spines}
  \cup {Zip("ok", "ok", m, NoCover, "none", <<"ch1">>) : m \in {"notitle", "noauthor", "blank"}}

\* the PDF bodies: what the PDF library reports for the bytes
Pdf(valid, meta, outline) == [kind |-> "pdf", valid |-> valid, meta |-> meta, outline |-> outline]

PdfBodies ==
  {Pdf(FALSE, "full", "none")}
  \cup {Pdf(TRUE, m, o) : m \in {"full", "none", "fail"}, o \in {"none", "fail", "empty", "tree", "chain"}}
  \cup {Pdf(TRUE, m, "none") : m \in {"notitle", "noauthor", "blank"}}

Text(text) == [kind |-> "text", text |-> text]

TextBodies ==
  { Text("# My Title\nbody"), Text("intro\n  #  Spaced  \r\n# Second"), Text("no heading here"),
    Text(""), Text("a\n## Sub\n#NoSpace\n\t# Tabbed\n# Later"),
    Text("1\n2\n3\n4\n5\n6\n7\n8\n9\n# Tenth\n# Eleventh"),
    Text("1\n2\n3\n4\n5\n6\n7\n8\n9\n10\n# Late") }

Unreadable == [kind |-> "unreadable"]

SampleZip == Zip("ok", "ok", "none", Cover("none", "ok", TRUE), "tree", <<"ch1", "ghost">>)

FileNames ==
  {"book.epub", "Novel.EPUB", "paper.pdf", "scan.PDF", "notes.md", "guide.Markdown",
   "story.txt", "LOG.TXT", "epub", "pdf", "readme", "my.book"}

File(name, body) == [name |-> name, body |-> body]

Files ==
  {File(n, b) : n \in FileNames,
                b \in {SampleZip, Pdf(TRUE, "full", "tree"), Pdf(FALSE, "full", "none"),
                       Text("# My Title\nbody"), Unreadable}}
  \cup {File("book.epub", z) : z \in ZipBodies}
  \cup {File("paper.pdf", d) : d \in PdfBodies}
  \cup {File(n, t) : n \in {"notes.md", "guide.Markdown"}, t \in TextBodies}

\* file.text(): the bytes decoded as text
TextOf(body) ==
  CASE body.kind = "text" -> body.text
    [] body.kind = "zip" -> "PK\t\t"
    [] body.kind = "pdf" -> "%PDF-1.4"

\* ------------------------------------------------------------------------
\* parseEpub: cover selection (part_003:200-234)
\* ------------------------------------------------------------------------
\* Array.prototype.find as the index of the first element whose test holds,
\* 0 when none; hits[i] is the outcome of the test on element i
FindIndex(hits) ==
  IF \E i \in 1..Len(hits) : hits[i]
  THEN CHOOSE i \in 1..Len(hits) : hits[i] /\ \A j \in 1..(i - 1) : ~hits[j]
  ELSE 0

\* index of the manifest item with the given id, 0 when none
ItemIndex(manifest, id) == FindIndex([k \in 1..Len(manifest) |-> manifest[k].id = id])

\* JavaScript truthiness of an attribute value (null and "" are falsy)
Truthy(v) == v # Null /\ v # ""

\* id of the first item whose test holds, or null (coverItem?.getAttribute('id') || null)
IdOfFirst(manifest, hits) ==
  LET k == FindIndex(hits) IN
  IF k = 0 THEN Null ELSE IF Truthy(manifest[k].id) THEN manifest[k].id ELSE Null

HasCoverImageProperty(item) ==
  item.properties # Null /\ Includes(item.properties, "cover-image")

LooksLikeCover(item) ==
  /\ item.id # Null /\ Includes(ToLowerCase(item.id), "cover")
  /\ item.mediaType # Null /\ StartsWith(item.mediaType, "image/")

\* id of the first item with the cover-image property, or null (part_003:209-210)
PropertyCoverId(manifest) ==
  IdOfFirst(manifest, [k \in 1..Len(manifest) |-> HasCoverImageProperty(manifest[k])])

\* id of the first image item whose id contains 'cover', or null (part_003:215-216)
NamedCoverId(manifest) ==
  IdOfFirst(manifest, [k \in 1..Len(manifest) |-> LooksLikeCover(manifest[k])])

\* variant: a cover-image item overrides the id the metadata names
CoverIdAfterBOverriding(coverId, manifest) ==
  IF Truthy(PropertyCoverId(manifest))
  THEN PropertyCoverId(manifest)
  ELSE coverId

\* Method B, taken only when Method A gave no id (part_003:208-211)
CoverIdAfterB(coverId, manifest) ==
  IF ~Truthy(coverId) THEN PropertyCoverId(manifest) ELSE coverId

\* Method C, taken only when Methods A and B gave no id (part_003:214-217)
CoverIdAfterC(coverId, manifest) ==
  IF ~Truthy(coverId) THEN NamedCoverId(manifest) ELSE coverId

\* the cover id the three methods settle on (part_003:204-217)
SelectCoverId(opf) ==
  CoverIdAfterC(CoverIdAfterB(opf.coverMeta, opf.manifest), opf.manifest)

\* path of the cover file to read, or null (part_003:219-226)
CoverPath(z, opfPath, opf) ==
  LET pathOf[coverId \in STRING] ==
        LET k == ItemIndex(opf.manifest, coverId)
        IN IF ~Truthy(coverId) \/ k = 0 THEN Null
           ELSE IF ~Truthy(opf.manifest[k].href) THEN Null
           ELSE LET fullCoverPath == resolvePath(opfPath, opf.manifest[k].href)
                IN IF HasFile(z, fullCoverPath) THEN fullCoverPath ELSE Null
  IN pathOf[SelectCoverId(opf)]

\* extension of a path as the source takes it: path.split('.').pop().toLowerCase() || 'jpg'
ExtOf(path) ==
  LET e == ToLowerCase(Last(Split(path, "."))) IN IF e = "" THEN "jpg" ELSE e

CoverMime(path) == IF ExtOf(path) = "png" THEN "image/png" ELSE "image/jpeg"

DataUri(mime, base64) == "data:" \o mime \o ";base64," \o base64

\* ------------------------------------------------------------------------
\* processChapterHTML (part_003:42-94)
\* ------------------------------------------------------------------------
ImageMime(path) ==
  LET ext == ExtOf(path) IN
  CASE ext = "png" -> "image/png"
    [] ext = "gif" -> "image/gif"
    [] ext = "svg" -> "image/svg+xml"
    [] ext = "webp" -> "image/webp"
    [] OTHER -> "image/jpeg"

InlineStyle == "max-width: 100%; height: auto; display: block; margin: 1em auto;"

\* the test that lets an image be inlined (part_003:56)
IsLocalSrc(src) == Truthy(src) /\ ~StartsWith(src, "http") /\ ~StartsWith(src, "data:")

\* src.split('#')[0].split('?')[0]
CleanSrc(src) == Split(Split(src, "#")[1], "?")[1]

\* the archive path whose read an image task awaits, or null when the task
\* ends without reading (part_003:55-62)
ImageWait(z, fullPath, src) ==
  IF ~IsLocalSrc(src) THEN Null
  ELSE LET imagePath == resolvePath(fullPath, CleanSrc(src))
       IN IF HasFile(z, imagePath) THEN imagePath ELSE Null

\* the img elements after the synchronous start of every image task
StartImages(z, fullPath, doc) ==
  [j \in 1..Len(doc.imgs) |->
     [src |-> doc.imgs[j].src, style |-> doc.imgs[j].style,
      wait |-> ImageWait(z, fullPath, doc.imgs[j].src)]]

\* an img element once its read has settled (part_003:63-77)
SettleImage(z, img) ==
  IF ZipFile(z, img.wait).corrupt
  THEN [img EXCEPT !.wait = Null]
  ELSE [src |-> DataUri(ImageMime(img.wait), ZipFile(z, img.wait).data),
        style |-> InlineStyle, wait |-> Null]

\* variant: the wrapper's id is the full archive path
ChapterFragmentWithPathAsId(fullPath, imgs, links) ==
  [id |-> fullPath, path |-> fullPath,
   imgs |-> [j \in 1..Len(imgs) |-> [src |-> imgs[j].src, style |-> imgs[j].style]],
   links |-> [j \in 1..Len(links) |-> FALSE]]

\* the chapter's wrapper element (part_003:83-93); links lose their target
ChapterFragment(fullPath, imgs, links) ==
  [id |-> Last(Split(fullPath, "/")), path |-> fullPath,
   imgs |-> [j \in 1..Len(imgs) |-> [src |-> imgs[j].src, style |-> imgs[j].style]],
   links |-> [j \in 1..Len(links) |-> FALSE]]

\* ------------------------------------------------------------------------
\* Content strings: a string that holds chapter markup is a sequence of
\* tokens, each a chapter element or the separator; "" is the empty sequence.
\* ------------------------------------------------------------------------
NL == [sep |-> "\n"]

RECURSIVE JoinTokensOfLoaded(_)
\* variant: empty chapters are filtered out before the join
JoinTokensOfLoaded(chapters) ==
  LET loaded == SelectSeq(chapters, LAMBDA c : c # << >>) IN
  IF Len(loaded) = 0 THEN << >>
  ELSE IF Len(loaded) = 1 THEN loaded[1]
  ELSE loaded[1] \o <<NL>> \o JoinTokensOfLoaded(Tail(loaded))

RECURSIVE JoinTokens(_)
\* chapters.join("\n") (part_003:255)
JoinTokens(chapters) ==
  IF Len(chapters) = 0 THEN << >>
  ELSE IF Len(chapters) = 1 THEN chapters[1]
  ELSE chapters[1] \o <<NL>> \o JoinTokens(Tail(chapters))

\* a record field that is present only when `present` holds (an absent
\* field models a JavaScript property that is undefined)
Opt(present, rec) == IF present THEN rec ELSE << >>

\* ------------------------------------------------------------------------
\* parseNcxToc (part_003:97-122)
\* ------------------------------------------------------------------------
RECURSIVE FirstLabel(_)
\* querySelector('navLabel > text') over a list of points in document order
FirstLabel(points) ==
  IF Len(points) = 0 THEN Null
  ELSE IF points[1].label # Null THEN points[1].label
  ELSE LET below == FirstLabel(points[1].points)
       IN IF below # Null THEN below ELSE FirstLabel(Tail(points))

RECURSIVE FirstSrc(_)
\* querySelector('content') over a list of points in document order
FirstSrc(points) ==
  IF Len(points) = 0 THEN Null
  ELSE IF points[1].src # Null THEN points[1].src
  ELSE LET below == FirstSrc(points[1].points)
       IN IF below # Null THEN below ELSE FirstSrc(Tail(points))

\* href reduced to its last '/'-separated part (part_003:105-110)
NcxHref(src) == IF ~Truthy(src) THEN "" ELSE Last(Split(src, "/"))

\* variant: a point without child points gets an empty children list
NcxChildrenAlways(point, kids) == [children |-> kids]

\* the children field of the returned entry (part_003:116)
NcxChildren(point, kids) == Opt(Len(point.points) > 0, [children |-> kids])

RECURSIVE Descendants(_)
\* querySelectorAll('navPoint') below a list of points: every descendant, in document order
Descendants(points) ==
  IF Len(points) = 0 THEN << >>
  ELSE << Head(points) >> \o Descendants(Head(points).points) \o Descendants(Tail(points))

RECURSIVE parsePointsOfAllDescendants(_)
\* variant: the child points are selected without ':scope >'
parsePointsOfAllDescendants(elements) ==
  [k \in 1..Len(elements) |->
     LET point == elements[k]
         text == FirstLabel(<<point>>)
     IN [label |-> IF Truthy(text) THEN text ELSE "Untitled",
         href |-> NcxHref(FirstSrc(<<point>>))]
        @@ NcxChildren(point, parsePointsOfAllDescendants(Descendants(point.points)))]

RECURSIVE parsePoints(_)
parsePoints(elements) ==
  [k \in 1..Len(elements) |->
     LET point == elements[k]
         text == FirstLabel(<<point>>)
     IN [label |-> IF Truthy(text) THEN text ELSE "Untitled",
         href |-> NcxHref(FirstSrc(<<point>>))]
        @@ NcxChildren(point, parsePoints(point.points))]

parseNcxToc(navMap) == parsePoints(navMap)

\* ------------------------------------------------------------------------
\* parsePdf: the outline (part_003:142-162)
\* ------------------------------------------------------------------------
Dest(kind, name, arr) == [kind |-> kind, name |-> name, arr |-> arr]
NoDest == Dest("none", Null, << >>)
Named(name) == Dest("named", name, << >>)
Explicit(arr) == Dest("explicit", Null, arr)

Node(title, dest, items) == [title |-> title, dest |-> dest, items |-> items]

\* pdf.getOutline() of a document whose outline is a tree
OutlineTree ==
  << Node("Intro", Explicit(<<"ref0", "XYZ">>), << >>),
     Node("Part", Named("chap1"),
          << Node("Lost", Named("missing"), << Node("Deep", Named("chap2"), << >>) >>),
             Node("Boom", Named("boom"), << >>) >>),
     Node("NoDest", NoDest, << >>),
     Node("BadRef", Explicit(<<"badref">>), << >>),
     Node("Empty", Explicit(<< >>), << >>),
     Node("End", Named("chap2"), << >>) >>

\* pdf.getOutline() of a document whose outline is a chain three levels deep
OutlineChain ==
  << Node("Root", Named("boom"),
          << Node("Mid", Explicit(<<"badref", "Fit">>),
                  << Node("Leaf", Explicit(<<"ref1", "FitH">>), << >>) >>) >>),
     Node("After", Named("chap1"), << >>) >>

\* pdf.getOutline(): the top-level nodes (none for a null or empty outline)
GetOutline(body) ==
  CASE body.outline = "tree" -> OutlineTree
    [] body.outline = "chain" -> OutlineChain
    [] OTHER -> << >>

\* pdf.getDestination(name): [st: "ok", arr] (arr null when the name is unknown) or a rejection
GetDestination(name) ==
  CASE name = "chap1" -> [st |-> "ok", found |-> TRUE, arr |-> <<"ref3", "Fit">>]
    [] name = "chap2" -> [st |-> "ok", found |-> TRUE, arr |-> <<"ref1">>]
    [] name = "boom" -> [st |-> "rejected", found |-> FALSE, arr |-> << >>]
    [] OTHER -> [st |-> "ok", found |-> FALSE, arr |-> << >>]

\* pdf.getPageIndex(ref): the 0-based page index, or -1 for a rejection
GetPageIndex(ref) ==
  CASE ref = "ref0" -> 0
    [] ref = "ref1" -> 1
    [] ref = "ref3" -> 3
    [] OTHER -> -1

\* variant: the page index is stored as it comes, without the + 1
DestPageZeroBased(node) ==
  IF node.dest.kind = "none" THEN [st |-> "ok", page |-> 0]
  ELSE LET looked == IF node.dest.kind = "named" THEN GetDestination(node.dest.name)
                     ELSE [st |-> "ok", found |-> TRUE, arr |-> node.dest.arr]
       IN IF looked.st = "rejected" THEN [st |-> "rejected", page |-> 0]
          ELSE IF ~looked.found \/ Len(looked.arr) = 0 THEN [st |-> "ok", page |-> 0]
          ELSE IF GetPageIndex(looked.arr[1]) < 0 THEN [st |-> "rejected", page |-> 0]
          ELSE [st |-> "ok", page |-> GetPageIndex(looked.arr[1])]

\* the try block of one node (part_003:147-153): it completes with the
\* value of pageNumber, or one of its awaits rejects
DestPage(node) ==
  IF node.dest.kind = "none" THEN [st |-> "ok", page |-> 0]
  ELSE LET looked == IF node.dest.kind = "named" THEN GetDestination(node.dest.name)
                     ELSE [st |-> "ok", found |-> TRUE, arr |-> node.dest.arr]
       IN IF looked.st = "rejected" THEN [st |-> "rejected", page |-> 0]
          ELSE IF ~looked.found \/ Len(looked.arr) = 0 THEN [st |-> "ok", page |-> 0]
          ELSE IF GetPageIndex(looked.arr[1]) < 0 THEN [st |-> "rejected", page |-> 0]
          ELSE [st |-> "ok", page |-> GetPageIndex(looked.arr[1]) + 1]

\* variant: the try block without its catch
PageNumberNoCatch(node) == DestPage(node)

\* pageNumber after the try/catch of one node (part_003:145-154): a
\* rejection is swallowed and pageNumber keeps its initial 0
PageNumber(node) ==
  IF DestPage(node).st = "rejected" THEN [st |-> "ok", page |-> 0] ELSE DestPage(node)

\* variant: the entry also gets the href field of the navigation entries
OutlineItemWithHref(node, page) == [label |-> node.title, page |-> page, href |-> ""]

\* label and page of the pushed entry (part_003:155-157)
OutlineItem(node, page) == [label |-> node.title, page |-> page]

\* the children field of the pushed entry (part_003:158)
OutlineChildren(node, kids) == Opt(Len(node.items) > 0, [children |-> kids])

RECURSIVE processOutline(_)
\* the for loop (part_003:143-161): the items, or the rejection of an await
processOutline(nodes) ==
  IF Len(nodes) = 0 THEN [st |-> "ok", items |-> << >>]
  ELSE LET node == Head(nodes)
           number == PageNumber(node)
           kids == IF Len(node.items) > 0 THEN processOutline(node.items)
                   ELSE [st |-> "ok", items |-> << >>]
           rest == processOutline(Tail(nodes))
       IN IF number.st = "rejected" \/ kids.st = "rejected" \/ rest.st = "rejected"
          THEN [st |-> "rejected", items |-> << >>]
          ELSE [st |-> "ok",
                items |-> << OutlineItem(node, number.page) @@ OutlineChildren(node, kids.items) >>
                          \o rest.items]

\* ------------------------------------------------------------------------
\* parseMarkdown (part_003:274-288)
\* ------------------------------------------------------------------------
IsSpace(c) == c \in {" ", "\t", "\r", "\n"}

RECURSIVE TrimStart(_)
TrimStart(s) ==
  LET trim[str \in STRING] ==
        IF Len(str) > 0 /\ IsSpace(CharAt(str, 1)) THEN TrimStart(Tail(str)) ELSE str
  IN trim[s]

RECURSIVE TrimEnd(_)
TrimEnd(s) ==
  LET trim[str \in STRING] ==
        IF Len(str) > 0 /\ IsSpace(CharAt(str, Len(str)))
        THEN TrimEnd(SubSeq(str, 1, Len(str) - 1))
        ELSE str
  IN trim[s]

\* String.prototype.trim
Trim(s) == TrimEnd(TrimStart(s))

HeadingScanLimit == 10

Min(a, b) == IF a < b THEN a ELSE b

\* variant: the scan runs over every line of the file
MarkdownTitleOfWholeFile(name, text) ==
  LET lines == Split(text, "\n")
      n == Len(lines)
      isHeading(i) == StartsWith(Trim(lines[i]), "# ")
  IN IF \E i \in 1..n : isHeading(i)
     THEN LET i == CHOOSE i \in 1..n : isHeading(i) /\ \A j \in 1..(i - 1) : ~isHeading(j)
          IN Trim(SubSeq(Trim(lines[i]), 3, Len(Trim(lines[i]))))
     ELSE StripSuffixI(name, ".md")

\* the title the scan of the first lines settles on
MarkdownTitle(name, text) ==
  LET titleOf[lines \in {Split(text, "\n")}] ==
        LET n == Min(Len(lines), HeadingScanLimit)
            isHeading(i) == StartsWith(Trim(lines[i]), "# ")
        IN IF \E i \in 1..n : isHeading(i)
           THEN LET i == CHOOSE i \in 1..n : isHeading(i) /\ \A j \in 1..(i - 1) : ~isHeading(j)
                IN Trim(SubSeq(Trim(lines[i]), 3, Len(Trim(lines[i]))))
           ELSE StripSuffixI(name, ".md")
  IN titleOf[Split(text, "\n")]

\* ------------------------------------------------------------------------
\* State
\* ------------------------------------------------------------------------
VARIABLES
  file,        \* the File given to parseBook: [name, body]
  pc,          \* where the parseBook call stands
  extension,   \* parseBook's extension
  attempts,    \* the parsers parseBook has called, in order
  thrown,      \* the error a parser threw into parseBook's catch
  result,      \* what parseBook settled with: a record, or [error |-> message]
  opfPath,     \* parseEpub's opfPath
  meta,        \* title and author of the parser running
  coverImage,  \* parseEpub's coverImage
  tasks,       \* parseEpub's chapterPromises, one task per spine itemref
  settled,     \* indices of the chapter tasks in the order they settled
  content,     \* parseEpub's fullHtml
  reads,       \* archive paths whose entry has been asked for its data
  heap,        \* the ArrayBuffers allocated so far: their bytes, and whether detached
  arrayBuffer, \* parsePdf's arrayBuffer: a reference into heap (0: not yet read)
  openData,    \* the data getDocument was given: a reference into heap (0: not yet called)
  running,     \* which parseBook call the variables above belong to (1 or 2)
  suspended,   \* the other call of a pair, waiting at an await: its variables
  fnIn,        \* arguments of the helper under test (helper specifications)
  fnOut        \* its result

vars == <<file, pc, extension, attempts, thrown, result, opfPath, meta, coverImage,
          tasks, settled, content, reads, heap, arrayBuffer, openData, running,
          suspended, fnIn, fnOut>>

epubVars == <<opfPath, meta, coverImage, tasks, settled, content, reads>>
callVars == <<extension, attempts, thrown, result>>
fnVars == <<fnIn, fnOut>>
pdfVars == <<heap, arrayBuffer, openData>>
pairVars == <<running, suspended>>

ErrRead == "NotReadableError"
ErrZip == "Can't find end of central directory : is this a zip file ?"
ErrCorrupt == "Corrupted zip : CRC32 mismatch"
ErrNoContainer == "Invalid EPUB: Missing container.xml"
ErrNoOpfPath == "Invalid EPUB: No OPF path found"
ErrNoOpf == "Invalid EPUB: OPF file missing"
ErrPdf == "Could not parse PDF content."

NoMeta == [title |-> Null, author |-> Null]

InitCall ==
  /\ pc = "start"
  /\ extension = Null
  /\ attempts = << >>
  /\ thrown = Null
  /\ result = [pending |-> TRUE]
  /\ opfPath = Null
  /\ meta = NoMeta
  /\ coverImage = Null
  /\ tasks = << >>
  /\ settled = << >>
  /\ content = << >>
  /\ reads = {}
  /\ heap = << >>
  /\ arrayBuffer = 0
  /\ openData = 0

\* no second call
NoCall == [pc |-> "none"]

Init ==
  /\ file \in Files
  /\ InitCall
  /\ running = 1
  /\ suspended = NoCall
  /\ fnIn = Null
  /\ fnOut = Null

\* a parser throws: control passes to parseBook's catch (part_003:313)
Throw(e) ==
  /\ thrown' = e
  /\ pc' = "catch"

\* parseBook returns a record
Return(rec) ==
  /\ result' = rec
  /\ pc' = "done"

\* ------------------------------------------------------------------------
\* parseBook (part_003:300-320)
\* ------------------------------------------------------------------------
\* file.name.split('.').pop()?.toLowerCase()
ExtensionOf(name) == ToLowerCase(Last(Split(name, ".")))

\* the parser the if-chain calls (part_003:304-312)
Route(ext) ==
  CASE ext = "epub" -> "epub"
    [] ext = "pdf" -> "pdf"
    [] ext = "md" \/ ext = "markdown" -> "markdown"
    [] OTHER -> "text"

\* variant: the catch block also re-attempts a failed PDF as plain text
FallsBackToTextOrPdf(ext) == ext = "txt" \/ ext = "pdf"

\* whether the catch block re-attempts the file as plain text (part_003:315)
FallsBackToText(ext) == ext = "txt"

EntryPc(parser) ==
  CASE parser = "epub" -> "epub.load"
    [] parser = "pdf" -> "pdf.read"
    [] parser = "markdown" -> "md.read"
    [] OTHER -> "txt.read"

ParseBook ==
  /\ pc = "start"
  /\ extension' = ExtensionOf(file.name)
  /\ attempts' = <<Route(ExtensionOf(file.name))>>
  /\ pc' = EntryPc(Route(ExtensionOf(file.name)))
  /\ UNCHANGED <<file, thrown, result, epubVars, fnVars, pairVars, pdfVars>>

\* variant: the catch block re-enters parseBook instead of calling parseText
CatchCallingParseBook ==
  /\ pc = "catch"
  /\ IF FallsBackToText(extension)
     THEN /\ pc' = "start"
          /\ UNCHANGED <<result, attempts>>
     ELSE /\ result' = [error |-> thrown]
          /\ pc' = "failed"
          /\ UNCHANGED attempts
  /\ UNCHANGED <<file, extension, thrown, epubVars, fnVars, pairVars, pdfVars>>

\* the catch block of parseBook (part_003:313-319)
Catch ==
  /\ pc = "catch"
  /\ IF FallsBackToText(extension)
     THEN /\ attempts' = Append(attempts, "text")
          /\ pc' = "retry.txt"
          /\ UNCHANGED result
     ELSE /\ result' = [error |-> thrown]
          /\ pc' = "failed"
          /\ UNCHANGED attempts
  /\ UNCHANGED <<file, extension, thrown, epubVars, fnVars, pairVars, pdfVars>>

\* ------------------------------------------------------------------------
\* parseText (part_003:290-298) and parseMarkdown (part_003:274-288)
\* ------------------------------------------------------------------------
TextRecord(f) ==
  [title |-> StripSuffixI(f.name, ".txt"), author |-> "Unknown",
   content |-> TextOf(f.body), type |-> "text"]

MarkdownRecord(f) ==
  [title |-> MarkdownTitle(f.name, TextOf(f.body)), author |-> "Unknown",
   content |-> TextOf(f.body), type |-> "text"]

ParseText ==
  /\ pc = "txt.read"
  /\ IF file.body.kind = "unreadable"
     THEN Throw(ErrRead) /\ UNCHANGED result
     ELSE Return(TextRecord(file)) /\ UNCHANGED thrown
  /\ UNCHANGED <<file, extension, attempts, epubVars, fnVars, pairVars, pdfVars>>

\* the parseText call made from the catch block (part_003:316)
RetryText ==
  /\ pc = "retry.txt"
  /\ IF file.body.kind = "unreadable"
     THEN result' = [error |-> ErrRead] /\ pc' = "failed"
     ELSE Return(TextRecord(file))
  /\ UNCHANGED <<file, extension, attempts, thrown, epubVars, fnVars, pairVars, pdfVars>>

ParseMarkdown ==
  /\ pc = "md.read"
  /\ IF file.body.kind = "unreadable"
     THEN Throw(ErrRead) /\ UNCHANGED result
     ELSE Return(MarkdownRecord(file)) /\ UNCHANGED thrown
  /\ UNCHANGED <<file, extension, attempts, epubVars, fnVars, pairVars, pdfVars>>

\* ------------------------------------------------------------------------
\* parsePdf (part_003:124-171)
\* ------------------------------------------------------------------------
\* an ArrayBuffer holding the given bytes
Buffer(bytes) == [bytes |-> bytes, detached |-> FALSE]

\* what a buffer holds when it is read: nothing once it is detached
BytesOf(buffer) == IF buffer.detached THEN [kind |-> "detached"] ELSE buffer.bytes

\* file.arrayBuffer() (part_003:125), outside the try block
PdfRead ==
  /\ pc = "pdf.read"
  /\ IF file.body.kind = "unreadable"
     THEN Throw(ErrRead) /\ UNCHANGED <<heap, arrayBuffer>>
     ELSE /\ heap' = Append(heap, Buffer(file.body))
          /\ arrayBuffer' = Len(heap) + 1
          /\ pc' = "pdf.open"
          /\ UNCHANGED thrown
  /\ UNCHANGED <<file, extension, attempts, result, epubVars, fnVars, pairVars, openData>>

\* variant: getDocument is given arrayBuffer itself
GetDocumentDataShared(h, ref) == [heap |-> h, ref |-> ref]

\* data: arrayBuffer.slice(0) (part_003:128): a new buffer with the same bytes
GetDocumentData(h, ref) == [heap |-> Append(h, Buffer(h[ref].bytes)), ref |-> Len(h) + 1]

\* getDocument(...).promise (part_003:127-132): the library may transfer the
\* buffer it is given to its worker, which detaches it; a failure is
\* rethrown by the catch at 168
PdfOpen ==
  /\ pc = "pdf.open"
  /\ LET data == GetDocumentData(heap, arrayBuffer) IN
     /\ openData' = data.ref
     /\ \E transferred \in BOOLEAN :
           heap' = [data.heap EXCEPT ![data.ref].detached = transferred]
  /\ IF file.body.kind = "pdf" /\ file.body.valid
     THEN pc' = "pdf.meta" /\ UNCHANGED thrown
     ELSE Throw(ErrPdf)
  /\ UNCHANGED <<file, extension, attempts, result, epubVars, fnVars, pairVars, arrayBuffer>>

\* metadata.info after getMetadata with its own catch (part_003:133-134):
\* empty when the call rejects
GetMetadata(body) ==
  [Title |-> CASE body.meta \in {"full", "noauthor"} -> "On Whales"
               [] body.meta = "blank" -> ""
               [] OTHER -> Null,
   Author |-> CASE body.meta \in {"full", "notitle"} -> "I. Ishmael"
                [] body.meta = "blank" -> ""
                [] OTHER -> Null]

\* title and author (part_003:135-136)
PdfMeta(name, info) ==
  [title |-> IF Truthy(info.Title) THEN info.Title ELSE StripSuffixI(name, ".pdf"),
   author |-> IF Truthy(info.Author) THEN info.Author ELSE "Unknown Author"]

\* getMetadata with its own catch, title and author (part_003:133-136)
PdfMetadata ==
  /\ pc = "pdf.meta"
  /\ meta' = PdfMeta(file.name, GetMetadata(file.body))
  /\ pc' = "pdf.outline"
  /\ UNCHANGED <<file, callVars, opfPath, coverImage, tasks, settled, content, reads, fnVars, pairVars, pdfVars>>

\* the toc parsePdf builds from getOutline() (part_003:138-165)
PdfToc(body) == processOutline(GetOutline(body)).items

\* variant: the toc is stored as it is, also when it has no entries
PdfRecordWithEmptyToc(f, m, data) ==
  [title |-> m.title, author |-> m.author, content |-> "PDF Document",
   pdfData |-> data, type |-> "pdf", toc |-> PdfToc(f.body)]

\* the returned record (part_003:167)
PdfRecord(f, m, data) ==
  [title |-> m.title, author |-> m.author, content |-> "PDF Document",
   pdfData |-> data, type |-> "pdf"]
  @@ Opt(Len(PdfToc(f.body)) > 0, [toc |-> PdfToc(f.body)])

\* variant: a rejection of getOutline is absorbed like that of getMetadata
PdfOutlineAbsorbingFailure ==
  /\ pc = "pdf.outline"
  /\ IF processOutline(GetOutline(file.body)).st = "rejected"
     THEN Throw(ErrPdf) /\ UNCHANGED result
     ELSE Return(PdfRecord(file, meta, BytesOf(heap[arrayBuffer]))) /\ UNCHANGED thrown
  /\ UNCHANGED <<file, extension, attempts, epubVars, fnVars, pairVars, pdfVars>>

\* getOutline, processOutline and the return (part_003:139-167)
PdfOutline ==
  /\ pc = "pdf.outline"
  /\ IF file.body.outline = "fail" \/ processOutline(GetOutline(file.body)).st = "rejected"
     THEN Throw(ErrPdf) /\ UNCHANGED result
     ELSE Return(PdfRecord(file, meta, BytesOf(heap[arrayBuffer]))) /\ UNCHANGED thrown
  /\ UNCHANGED <<file, extension, attempts, epubVars, fnVars, pairVars, pdfVars>>

\* ------------------------------------------------------------------------
\* parseEpub (part_003:173-272)
\* ------------------------------------------------------------------------
\* zip.loadAsync(file) (part_003:174-175)
EpubLoad ==
  /\ pc = "epub.load"
  /\ IF file.body.kind = "zip" THEN pc' = "epub.container" /\ UNCHANGED thrown
     ELSE IF file.body.kind = "unreadable" THEN Throw(ErrRead)
     ELSE Throw(ErrZip)
  /\ UNCHANGED <<file, extension, attempts, result, epubVars, fnVars, pairVars, pdfVars>>

\* variant: the missing full-path attribute goes unnoticed
NoOpfPathUnchecked(fullPath) == FALSE

\* the test that the rootfile names no package path (part_003:184)
NoOpfPath(fullPath) == ~Truthy(fullPath)

\* 1. Find OPF (part_003:178-184)
EpubContainer ==
  /\ pc = "epub.container"
  /\ IF ~HasFile(file.body, ContainerPath)
     THEN Throw(ErrNoContainer) /\ UNCHANGED <<opfPath, reads>>
     ELSE /\ reads' = reads \cup {ContainerPath}
          /\ IF NoOpfPath(ZipFile(file.body, ContainerPath).data.fullPath)
             THEN Throw(ErrNoOpfPath) /\ UNCHANGED opfPath
             ELSE /\ opfPath' = ZipFile(file.body, ContainerPath).data.fullPath
                  /\ pc' = "epub.opf"
                  /\ UNCHANGED thrown
  /\ UNCHANGED <<file, extension, attempts, result, meta, coverImage, tasks, settled,
                 content, fnVars, pairVars, pdfVars>>

\* the parsed package document of a file whose package entry exists
Opf(f, path) == ZipFile(f.body, path).data

\* 2. Read OPF, title and author (part_003:187-198)
\* variant: the fallback title is the file name as it is
EpubMetaKeepingExtension(name, opf) ==
  [title |-> IF Truthy(opf.title) THEN opf.title ELSE name,
   author |-> IF Truthy(opf.creator) THEN opf.creator ELSE "Unknown Author"]

\* title and author (part_003:191-192)
EpubMeta(name, opf) ==
  [title |-> IF Truthy(opf.title) THEN opf.title ELSE StripSuffixI(name, ".epub"),
   author |-> IF Truthy(opf.creator) THEN opf.creator ELSE "Unknown Author"]

EpubOpf ==
  /\ pc = "epub.opf"
  /\ IF ~HasFile(file.body, opfPath)
     THEN Throw(ErrNoOpf) /\ UNCHANGED <<meta, reads>>
     ELSE /\ reads' = reads \cup {opfPath}
          /\ meta' = EpubMeta(file.name, Opf(file, opfPath))
          /\ pc' = "epub.cover"
          /\ UNCHANGED thrown
  /\ UNCHANGED <<file, extension, attempts, result, opfPath, coverImage, tasks, settled,
                 content, fnVars, pairVars, pdfVars>>

\* 4. Find Cover Image (part_003:200-234)
EpubCover ==
  /\ pc = "epub.cover"
  /\ \E opf \in {Opf(file, opfPath)} : \E path \in {CoverPath(file.body, opfPath, opf)} :
     IF path = Null
     THEN /\ pc' = "epub.dispatch"
          /\ UNCHANGED <<coverImage, reads, thrown>>
     ELSE /\ reads' = reads \cup {path}
          /\ IF ZipFile(file.body, path).corrupt
             THEN Throw(ErrCorrupt) /\ UNCHANGED coverImage
             ELSE /\ coverImage' = DataUri(CoverMime(path), ZipFile(file.body, path).data)
                  /\ pc' = "epub.dispatch"
                  /\ UNCHANGED thrown
  /\ UNCHANGED <<file, extension, attempts, result, opfPath, meta, tasks, settled,
                 content, fnVars, pairVars, pdfVars>>

Task(st, path, imgs, links, value) ==
  [st |-> st, path |-> path, imgs |-> imgs, links |-> links, value |-> value]

\* variant: the item is used without the check that it was found
StartChapterUnchecked(opf, path, idref) ==
  LET k == ItemIndex(opf.manifest, idref) IN
  IF k = 0 THEN Task("rejected", Null, << >>, << >>, << >>)
  ELSE IF ~Truthy(opf.manifest[k].href) THEN Task("resolved", Null, << >>, << >>, << >>)
  ELSE Task("reading", resolvePath(path, opf.manifest[k].href), << >>, << >>, << >>)

\* a chapter task up to its first await (part_003:237-246)
StartChapter(opf, path, idref) ==
  LET k == ItemIndex(opf.manifest, idref) IN
  IF k = 0 THEN Task("resolved", Null, << >>, << >>, << >>)
  ELSE IF ~Truthy(opf.manifest[k].href) THEN Task("resolved", Null, << >>, << >>, << >>)
  ELSE Task("reading", resolvePath(path, opf.manifest[k].href), << >>, << >>, << >>)

\* 5. spineItems.map(async ...) (part_003:237-252): every task runs to its first await
EpubDispatch ==
  /\ pc = "epub.dispatch"
  /\ \E opf \in {Opf(file, opfPath)} :
     \E started \in {[i \in 1..Len(opf.spine) |-> StartChapter(opf, opfPath, opf.spine[i])]} :
        /\ tasks' = started
        /\ settled' = SelectSeq([i \in 1..Len(started) |-> i],
                                LAMBDA i : started[i].st = "resolved")
        /\ reads' = reads \cup {started[i].path : i \in
                       {j \in 1..Len(started) : started[j].st = "reading"
                                                /\ HasFile(file.body, started[j].path)}}
  /\ pc' = "epub.await"
  /\ UNCHANGED <<file, callVars, opfPath, meta, coverImage, content, fnVars, pairVars, pdfVars>>

\* paths whose read the image tasks of a chapter start
ImageReads(imgs) == {imgs[j].wait : j \in {k \in 1..Len(imgs) : imgs[k].wait # Null}}

\* the chapter's file read settles (part_003:246-251); a chapter that was
\* read enters processChapterHTML and starts its image tasks (part_003:47-62)
ChapterRead(i) ==
  /\ i \in 1..Len(tasks)
  /\ tasks[i].st = "reading"
  /\ IF ~HasFile(file.body, tasks[i].path)
     THEN /\ tasks' = [tasks EXCEPT ![i].st = "resolved"]
          /\ settled' = Append(settled, i)
          /\ UNCHANGED reads
     ELSE IF ZipFile(file.body, tasks[i].path).corrupt
     THEN /\ tasks' = [tasks EXCEPT ![i].st = "rejected"]
          /\ settled' = Append(settled, i)
          /\ UNCHANGED reads
     ELSE \E doc \in {ZipFile(file.body, tasks[i].path).data} :
          \E imgs \in {StartImages(file.body, tasks[i].path, doc)} :
             /\ tasks' = [tasks EXCEPT ![i] =
                            Task("images", tasks[i].path, imgs, doc.links, << >>)]
             /\ reads' = reads \cup ImageReads(imgs)
             /\ UNCHANGED settled
  /\ UNCHANGED <<file, pc, callVars, opfPath, meta, coverImage, content, fnVars, pairVars, pdfVars>>

\* variant: no try/catch around the image read, so a failed read rejects
\* Promise.all over the image tasks and with it the chapter
ImageReadNoCatch(i, j) ==
  /\ i \in 1..Len(tasks)
  /\ tasks[i].st = "images"
  /\ j \in 1..Len(tasks[i].imgs)
  /\ tasks[i].imgs[j].wait # Null
  /\ IF ZipFile(file.body, tasks[i].imgs[j].wait).corrupt
     THEN /\ tasks' = [tasks EXCEPT ![i].st = "rejected"]
          /\ settled' = Append(settled, i)
     ELSE /\ tasks' = [tasks EXCEPT ![i].imgs[j] = SettleImage(file.body, tasks[i].imgs[j])]
          /\ UNCHANGED settled
  /\ UNCHANGED <<file, pc, callVars, opfPath, meta, coverImage, content, reads, fnVars, pairVars, pdfVars>>

\* one image read settles (part_003:63-77)
ImageRead(i, j) ==
  /\ i \in 1..Len(tasks)
  /\ tasks[i].st = "images"
  /\ j \in 1..Len(tasks[i].imgs)
  /\ tasks[i].imgs[j].wait # Null
  /\ tasks' = [tasks EXCEPT ![i].imgs[j] = SettleImage(file.body, tasks[i].imgs[j])]
  /\ UNCHANGED <<file, pc, callVars, opfPath, meta, coverImage, settled, content, reads,
                 fnVars, pairVars, pdfVars>>

\* variant: the chapter returns without awaiting its image tasks
ChapterFinishBeforeImages(i) ==
  /\ i \in 1..Len(tasks)
  /\ tasks[i].st = "images"
  /\ tasks' = [tasks EXCEPT ![i].st = "resolved",
                            ![i].value = <<ChapterFragment(tasks[i].path, tasks[i].imgs,
                                                           tasks[i].links)>>]
  /\ settled' = Append(settled, i)
  /\ UNCHANGED <<file, pc, callVars, opfPath, meta, coverImage, content, reads, fnVars,
                 pdfVars, pairVars>>

\* Promise.all over the image tasks resolves; the chapter returns its
\* wrapper element (part_003:80-93, 249)
ChapterFinish(i) ==
  /\ i \in 1..Len(tasks)
  /\ tasks[i].st = "images"
  /\ \A j \in 1..Len(tasks[i].imgs) : tasks[i].imgs[j].wait = Null
  /\ tasks' = [tasks EXCEPT ![i].st = "resolved",
                            ![i].value = <<ChapterFragment(tasks[i].path, tasks[i].imgs,
                                                           tasks[i].links)>>]
  /\ settled' = Append(settled, i)
  /\ UNCHANGED <<file, pc, callVars, opfPath, meta, coverImage, content, reads, fnVars, pairVars, pdfVars>>

\* variant: the values are collected in the order the tasks settled
ChapterResultsBySettling(ts, order) == [k \in 1..Len(order) |-> ts[order[k]].value]

\* the array Promise.all resolves with: the task values by task index (part_003:254)
ChapterResults(ts, order) == [i \in 1..Len(ts) |-> ts[i].value]

\* await Promise.all(chapterPromises) resolves; join (part_003:254-255)
EpubJoin ==
  /\ pc = "epub.await"
  /\ \A i \in 1..Len(tasks) : tasks[i].st = "resolved"
  /\ content' = JoinTokens(ChapterResults(tasks, settled))
  /\ pc' = "epub.toc"
  /\ UNCHANGED <<file, callVars, opfPath, meta, coverImage, tasks, settled, reads, fnVars, pairVars, pdfVars>>

\* await Promise.all(chapterPromises) rejects as soon as one task has rejected
EpubReject ==
  /\ pc = "epub.await"
  /\ \E i \in 1..Len(tasks) : tasks[i].st = "rejected"
  /\ Throw(ErrCorrupt)
  /\ UNCHANGED <<file, extension, attempts, result, epubVars, fnVars, pairVars, pdfVars>>

IsNcx(item) == item.mediaType = "application/x-dtbncx+xml"

\* path of the navigation document to read, or null (part_003:261-264)
NcxPath(z, path, opf) ==
  LET k == FindIndex([n \in 1..Len(opf.manifest) |-> IsNcx(opf.manifest[n])]) IN
  IF k = 0 THEN Null
  ELSE LET ncxHref == resolvePath(path, IF Truthy(opf.manifest[k].href)
                                        THEN opf.manifest[k].href ELSE "")
       IN IF HasFile(z, ncxHref) THEN ncxHref ELSE Null

EpubRecord(m, html, toc, cover) ==
  [title |-> m.title, author |-> m.author, content |-> html, type |-> "epub", toc |-> toc]
  @@ Opt(cover # Null, [coverImage |-> cover])

\* 6. Extract Table of Contents and return (part_003:258-271)
EpubToc ==
  /\ pc = "epub.toc"
  /\ \E opf \in {Opf(file, opfPath)} : \E path \in {NcxPath(file.body, opfPath, opf)} :
     IF path = Null
     THEN /\ Return(EpubRecord(meta, content, << >>, coverImage))
          /\ UNCHANGED <<reads, thrown>>
     ELSE /\ reads' = reads \cup {path}
          /\ IF ZipFile(file.body, path).corrupt
             THEN Throw(ErrCorrupt) /\ UNCHANGED result
             ELSE /\ Return(EpubRecord(meta, content,
                                       parseNcxToc(ZipFile(file.body, path).data), coverImage))
                  /\ UNCHANGED thrown
  /\ UNCHANGED <<file, extension, attempts, opfPath, meta, coverImage, tasks, settled,
                 content, fnVars, pairVars, pdfVars>>

\* ------------------------------------------------------------------------
\* Specification of one parseBook call
\* ------------------------------------------------------------------------
Next ==
  \/ ParseBook
  \/ Catch
  \/ ParseText
  \/ RetryText
  \/ ParseMarkdown
  \/ PdfRead
  \/ PdfOpen
  \/ PdfMetadata
  \/ PdfOutline
  \/ EpubLoad
  \/ EpubContainer
  \/ EpubOpf
  \/ EpubCover
  \/ EpubDispatch
  \/ \E i \in DOMAIN tasks : ChapterRead(i)
  \/ \E i \in DOMAIN tasks : \E j \in DOMAIN tasks[i].imgs : ImageRead(i, j)
  \/ \E i \in DOMAIN tasks : ChapterFinish(i)
  \/ EpubJoin
  \/ EpubReject
  \/ EpubToc

Spec == Init /\ [][Next]_vars

\* ------------------------------------------------------------------------
\* Specification of one parseBook call whose collaborators all settle: a
\* call that waits for a file read, an archive-entry read or a PDF call is
\* resumed once that call has settled, so a step that is possible is
\* eventually taken
\* ------------------------------------------------------------------------
SpecLive == Init /\ [][Next]_vars /\ WF_vars(Next)

\* ------------------------------------------------------------------------
\* Specification of resolvePath alone: the arguments are drawn from the
\* bounded path sets and the helper is applied once
\* ------------------------------------------------------------------------
InitResolve ==
  /\ file = File("book.epub", SampleZip)
  /\ InitCall
  /\ running = 1
  /\ suspended = NoCall
  /\ fnIn \in [base : BasePaths, rel : RelRefs]
  /\ fnOut = Null

ApplyResolve ==
  /\ fnOut = Null
  /\ fnOut' = resolvePath(fnIn.base, fnIn.rel)
  /\ UNCHANGED <<file, pc, callVars, epubVars, pdfVars, fnIn, pairVars>>

NextResolve == ApplyResolve

SpecResolve == InitResolve /\ [][NextResolve]_vars

\* ------------------------------------------------------------------------
\* Specification of two parseBook calls on the same file: the calls run on
\* one event loop, so one call runs from an await to its next await while the
\* other is suspended, and the loop may resume either call at every await.
\* The parser module keeps no variable outside its functions (its only
\* module-level statement sets the PDF worker source when the module loads,
\* part_003:9-10), so a suspended call keeps all of its variables.
\* ------------------------------------------------------------------------
\* the variables of the running call
CallState ==
  [pc |-> pc, extension |-> extension, attempts |-> attempts, thrown |-> thrown,
   result |-> result, opfPath |-> opfPath, meta |-> meta, coverImage |-> coverImage,
   tasks |-> tasks, settled |-> settled, content |-> content, reads |-> reads,
   heap |-> heap, arrayBuffer |-> arrayBuffer, openData |-> openData]

PairFiles ==
  { File("book.epub", Zip("ok", "ok", "none", Cover("named", "ok", TRUE), "tree",
                          <<"ch1", "ch3">>)),
    File("book.epub", Zip("ok", "ok", "full", NoCover, "none", <<"ch2", "ch3", "ch5">>)),
    File("book.epub", Zip("ok", "ok", "full", NoCover, "none", <<"ch2", "ch1", "ghost">>)),
    File("paper.pdf", Pdf(TRUE, "full", "tree")),
    File("notes.md", Text("# My Title\nbody")),
    File("story.txt", Text("# My Title\nbody")),
    File("story.txt", Unreadable) }

InitPair ==
  /\ file \in PairFiles
  /\ InitCall
  /\ running = 1
  /\ suspended = [pc |-> "start", extension |-> Null, attempts |-> << >>, thrown |-> Null,
                  result |-> [pending |-> TRUE], opfPath |-> Null, meta |-> NoMeta,
                  coverImage |-> Null, tasks |-> << >>, settled |-> << >>,
                  content |-> << >>, reads |-> {}, heap |-> << >>, arrayBuffer |-> 0,
                  openData |-> 0]
  /\ fnIn = Null
  /\ fnOut = Null

\* the event loop resumes the other call
Switch ==
  /\ suspended # NoCall
  /\ suspended' = CallState
  /\ running' = 3 - running
  /\ pc' = suspended.pc
  /\ extension' = suspended.extension
  /\ attempts' = suspended.attempts
  /\ thrown' = suspended.thrown
  /\ result' = suspended.result
  /\ opfPath' = suspended.opfPath
  /\ meta' = suspended.meta
  /\ coverImage' = suspended.coverImage
  /\ tasks' = suspended.tasks
  /\ settled' = suspended.settled
  /\ content' = suspended.content
  /\ reads' = suspended.reads
  /\ heap' = suspended.heap
  /\ arrayBuffer' = suspended.arrayBuffer
  /\ openData' = suspended.openData
  /\ UNCHANGED <<file, fnVars>>

NextPair == Next \/ Switch

SpecPair == InitPair /\ [][NextPair]_vars

\* ========================================================================
\* Properties
\* ========================================================================
IsRecord == "type" \in DOMAIN result
IsError == "error" \in DOMAIN result
Settled == pc \in {"done", "failed"}

\* the call is an EPUB parse of a file that is an archive
EpubCall == attempts # << >> /\ attempts[1] = "epub" /\ file.body.kind = "zip"

\* the call is an EPUB parse whose chapter tasks have been dispatched
Dispatched == EpubCall /\ pc \notin {"start", "epub.load", "epub.container", "epub.opf",
                                     "epub.cover", "epub.dispatch"}
                       /\ opfPath # Null /\ HasFile(file.body, opfPath)
                       /\ Len(tasks) = Len(file.body.spine)

\* the chapter elements of a content string, in order
Fragments(html) == SelectSeq(html, LAMBDA t : "path" \in DOMAIN t)

\* the archive path of the chapter spine entry i names, or null
SpinePath(i) ==
  LET opf == Opf(file, opfPath)
      k == ItemIndex(opf.manifest, opf.spine[i])
  IN IF k = 0 \/ ~Truthy(opf.manifest[k].href) THEN Null
     ELSE resolvePath(opfPath, opf.manifest[k].href)

\* spine entry i names a chapter the archive holds
Loadable(i) == SpinePath(i) # Null /\ HasFile(file.body, SpinePath(i))

\* C1: whatever the order in which the chapter tasks and their image tasks
\* settle, parseEpub returns only when every chapter task has settled, and
\* the returned content holds the fragment of every loaded spine chapter
\* once, in spine order.
C1_ContentInSpineOrder ==
  (Dispatched /\ pc = "done") =>
     /\ \A i \in 1..Len(tasks) : tasks[i].st = "resolved"
     /\ LET loaded == SelectSeq([i \in 1..Len(tasks) |-> i], Loadable)
            frags == Fragments(result.content)
        IN /\ Len(frags) = Len(loaded)
           /\ \A k \in 1..Len(loaded) :
                /\ frags[k].path = SpinePath(loaded[k])
                /\ <<frags[k]>> = tasks[loaded[k]].value

\* C1 witness: a returned parse of three loaded chapters whose tasks settled
\* in an order other than spine order
C1_Witness ==
  /\ Dispatched /\ pc = "done"
  /\ Len(Fragments(result.content)) = 3
  /\ settled[1] = 3 /\ settled[2] = 1
  /\ Fragments(result.content)[1].path # Fragments(result.content)[3].path

\* the extension of a file name: the text after its last '.', none without a '.'
NameExtension(name) ==
  IF LastIndexOf(name, ".") < 0 THEN ""
  ELSE ToLowerCase(SubSeq(name, LastIndexOf(name, ".") + 2, Len(name)))

\* C2: parseBook routes by the file name's extension, case-insensitively:
\* epub to the EPUB parser, pdf to the PDF parser, md or markdown to the
\* Markdown parser, anything else to the plain-text parser.
C2_RoutesByExtension ==
  attempts # << >> =>
     attempts[1] = (CASE NameExtension(file.name) = "epub" -> "epub"
                      [] NameExtension(file.name) = "pdf" -> "pdf"
                      [] NameExtension(file.name) \in {"md", "markdown"} -> "markdown"
                      [] OTHER -> "text")

\* C3: an error thrown by the EPUB or PDF parser reaches the caller
\* unchanged and without a plain-text re-attempt, and a '.pdf'-named file
\* with invalid PDF bytes fails with the PDF parse error, never yielding a
\* text-typed record.
C3_ParserErrorPropagates ==
  /\ (attempts # << >> /\ attempts[1] \in {"epub", "pdf"} /\ thrown # Null /\ Settled) =>
        /\ pc = "failed"
        /\ result = [error |-> thrown]
        /\ Len(attempts) = 1
  /\ (Settled /\ extension = "pdf" /\ file.body.kind \in {"text", "zip", "pdf"}
        /\ ~(file.body.kind = "pdf" /\ file.body.valid)) =>
        /\ result = [error |-> ErrPdf]
        /\ ~IsRecord

\* C3 witness: a '.pdf'-named file holding text has failed with the PDF error
C3_Witness ==
  /\ pc = "failed" /\ attempts = <<"pdf">> /\ file.body.kind = "text"
  /\ result = [error |-> ErrPdf]

\* the three fatal shapes of an archive
ContainerMissing == ~HasFile(file.body, ContainerPath)
PathMissing ==
  /\ ~ContainerMissing
  /\ ~Truthy(ZipFile(file.body, ContainerPath).data.fullPath)
PackageMissing ==
  /\ ~ContainerMissing /\ ~PathMissing
  /\ ~HasFile(file.body, ZipFile(file.body, ContainerPath).data.fullPath)

\* C4: when the container entry is missing, its rootfile has no full-path,
\* or the package it names is missing, parseEpub fails with the matching
\* invalid-archive error, returns no record, and does no chapter, cover or
\* table-of-contents work.
C4_FatalArchiveStructure ==
  (EpubCall /\ (ContainerMissing \/ PathMissing \/ PackageMissing)) =>
     /\ pc # "done" /\ ~IsRecord
     /\ tasks = << >> /\ settled = << >> /\ content = << >> /\ coverImage = Null
     /\ reads \subseteq {ContainerPath}
     /\ pc \in {"catch", "failed"} =>
          thrown = (CASE ContainerMissing -> ErrNoContainer
                      [] PathMissing -> ErrNoOpfPath
                      [] OTHER -> ErrNoOpf)
     /\ pc = "failed" => result = [error |-> thrown]

\* C4 witness: a parse of an archive whose rootfile has no full-path has failed
C4_Witness ==
  /\ EpubCall /\ PathMissing /\ pc = "failed"
  /\ result = [error |-> ErrNoOpfPath]

\* spine entry i matches no manifest item, or its chapter file is absent
Unresolved(i) ==
  \/ ItemIndex(Opf(file, opfPath).manifest, Opf(file, opfPath).spine[i]) = 0
  \/ SpinePath(i) # Null /\ ~HasFile(file.body, SpinePath(i))

\* C5: a spine entry that matches no manifest item, or whose chapter file is
\* absent, never rejects: its task contributes the empty string, a parse that
\* fails after dispatch fails for another chapter, and a returned content
\* holds every other spine chapter.
C5_UnresolvedSpineEntryOmitted ==
  Dispatched =>
     /\ \A i \in 1..Len(tasks) :
           Unresolved(i) => tasks[i].st # "rejected" /\ tasks[i].value = << >>
     /\ (pc \in {"catch", "failed"} /\ \E i \in 1..Len(tasks) : Unresolved(i)) =>
           \E j \in 1..Len(tasks) : ~Unresolved(j) /\ tasks[j].st = "rejected"
     /\ pc = "done" =>
           /\ \A i \in 1..Len(tasks) :
                 Loadable(i) => \E k \in 1..Len(result.content) :
                                   /\ "path" \in DOMAIN result.content[k]
                                   /\ result.content[k].path = SpinePath(i)
           /\ Len(Fragments(result.content)) =
                 Cardinality({i \in 1..Len(tasks) : ~Unresolved(i) /\ Loadable(i)})

\* C5 witness: a returned parse whose spine has an unmatched idref and an
\* absent chapter file beside a loaded chapter
C5_Witness ==
  /\ Dispatched /\ pc = "done"
  /\ \E i \in 1..Len(tasks) : SpinePath(i) = Null
  /\ \E i \in 1..Len(tasks) : SpinePath(i) # Null /\ ~HasFile(file.body, SpinePath(i))
  /\ Len(Fragments(result.content)) >= 1

\* an absolute URL reference, and a data reference
IsAbsoluteUrl(src) == StartsWith(src, "http://") \/ StartsWith(src, "https://")
IsDataRef(src) == StartsWith(src, "data:")

\* the archive path an image reference of chapter i designates
ImageTarget(i, src) == resolvePath(tasks[i].path, CleanSrc(src))

\* chapter i was read and parsed
Parsed(i) == tasks[i].st = "images" \/ (tasks[i].st = "resolved" /\ tasks[i].value # << >>)

\* the img elements of chapter i as the archive holds them
SourceImgs(i) == ZipFile(file.body, tasks[i].path).data.imgs

\* img j of chapter i can be inlined: a reference that is neither an absolute
\* URL nor a data reference, to an entry of the archive
Inlinable(i, j) ==
  LET src == SourceImgs(i)[j].src IN
  /\ Truthy(src) /\ ~IsAbsoluteUrl(src) /\ ~IsDataRef(src)
  /\ HasFile(file.body, ImageTarget(i, src))

Readable(path) == ~ZipFile(file.body, path).corrupt

Inlined(i, j) ==
  LET target == ImageTarget(i, SourceImgs(i)[j].src) IN
  DataUri(ImageMime(target), ZipFile(file.body, target).data)

\* C6: in a produced chapter every image reference that is neither an
\* absolute URL nor a data reference and whose resolved path is a (readable)
\* entry of the archive is replaced by its base64 form, with the MIME type of
\* its extension; absolute-URL and data references are left untouched.
C6_LocalImagesInlined ==
  Dispatched =>
    \A i \in 1..Len(tasks) : tasks[i].st = "resolved" /\ tasks[i].value # << >> =>
      \A j \in 1..Len(SourceImgs(i)) :
        LET src == SourceImgs(i)[j].src
            out == tasks[i].value[1].imgs[j]
        IN /\ (Inlinable(i, j) /\ Readable(ImageTarget(i, src))) => out.src = Inlined(i, j)
           /\ (Truthy(src) /\ (IsAbsoluteUrl(src) \/ IsDataRef(src))) =>
                 out = SourceImgs(i)[j]

\* img j of chapter i is one the source starts a read for
ReadStarted(i, j) == ImageWait(file.body, tasks[i].path, SourceImgs(i)[j].src) # Null

\* C7: in every interleaving of the image tasks of a chapter, an image whose
\* lookup or read fails keeps its reference, every other image the source
\* reads is inlined once its read settles and is untouched until then, the
\* chapter task rejects only when the chapter entry itself cannot be read, and
\* the resolved chapter carries its fragment.
C7_ImageFailureIsolated ==
  Dispatched =>
    \A i \in 1..Len(tasks) :
      /\ tasks[i].st = "rejected" => ~Readable(tasks[i].path)
      /\ Parsed(i) =>
           LET source == SourceImgs(i) IN
           /\ Len(tasks[i].imgs) = Len(source)
           /\ \A j \in 1..Len(source) :
                LET img == tasks[i].imgs[j]
                    target == ImageTarget(i, source[j].src)
                    failed == ~ReadStarted(i, j) \/ ~Readable(target)
                IN /\ failed => img.src = source[j].src
                   /\ (~failed /\ img.wait = Null) =>
                         img.src = DataUri(ImageMime(target), ZipFile(file.body, target).data)
                   /\ (~failed /\ img.wait # Null) => img.src = source[j].src
           /\ tasks[i].st = "resolved" =>
                /\ Len(tasks[i].value) = 1
                /\ \A j \in 1..Len(source) :
                      /\ tasks[i].imgs[j].wait = Null
                      /\ tasks[i].value[1].imgs[j].src = tasks[i].imgs[j].src

\* C7 witness: a chapter has resolved with one image kept after its read
\* failed and a sibling image inlined
C7_Witness ==
  /\ Dispatched
  /\ \E i \in 1..Len(tasks) :
       /\ tasks[i].st = "resolved" /\ tasks[i].value # << >>
       /\ \E j, k \in 1..Len(tasks[i].imgs) :
            /\ ReadStarted(i, j) /\ ~Readable(ImageTarget(i, SourceImgs(i)[j].src))
            /\ tasks[i].value[1].imgs[j].src = SourceImgs(i)[j].src
            /\ ReadStarted(i, k) /\ tasks[i].value[1].imgs[k].src = Inlined(i, k)

\* the package was read and the cover step is behind
PastCover ==
  /\ EpubCall /\ opfPath # Null /\ HasFile(file.body, opfPath)
  /\ pc \notin {"start", "epub.load", "epub.container", "epub.opf", "epub.cover"}

\* the candidate id of each strategy, in the order of the strategies
CoverCandidates(opf) ==
  << opf.coverMeta,
     PropertyCoverId(opf.manifest),
     NamedCoverId(opf.manifest) >>

\* the archive path a candidate id leads to, or null
CandidatePath(opf, id) ==
  LET k == ItemIndex(opf.manifest, id) IN
  IF ~Truthy(id) \/ k = 0 THEN Null
  ELSE IF ~Truthy(opf.manifest[k].href) THEN Null
  ELSE IF HasFile(file.body, resolvePath(opfPath, opf.manifest[k].href))
       THEN resolvePath(opfPath, opf.manifest[k].href) ELSE Null

CoverOf(path) == DataUri(CoverMime(path), ZipFile(file.body, path).data)

\* C8: the strategies are tried in the order metadata entry, cover-image
\* property, id containing 'cover' with an image media type; the first one
\* that names an id wins, so that a loadable cover named by the metadata is
\* returned even when a cover-image item points elsewhere.
C8_CoverStrategyOrder ==
  (PastCover /\ pc \in {"epub.dispatch", "done"}) =>
    LET opf == Opf(file, opfPath)
        cands == CoverCandidates(opf)
        first == IF \E k \in 1..3 : Truthy(cands[k])
                 THEN cands[CHOOSE k \in 1..3 :
                               Truthy(cands[k]) /\ \A m \in 1..(k - 1) : ~Truthy(cands[m])]
                 ELSE Null
    IN (CandidatePath(opf, first) # Null /\ Readable(CandidatePath(opf, first))) =>
          /\ coverImage = CoverOf(CandidatePath(opf, first))
          /\ pc = "done" => /\ "coverImage" \in DOMAIN result
                            /\ result.coverImage = CoverOf(CandidatePath(opf, first))

\* C8 witness: the metadata names a loadable cover, a cover-image item points
\* elsewhere, and the parse returned the cover the metadata names
C8_Witness ==
  /\ PastCover /\ pc = "done"
  /\ LET opf == Opf(file, opfPath) IN
       /\ Truthy(opf.coverMeta)
       /\ Truthy(CoverCandidates(opf)[2]) /\ CoverCandidates(opf)[2] # opf.coverMeta
       /\ CandidatePath(opf, CoverCandidates(opf)[2]) # Null
       /\ CandidatePath(opf, opf.coverMeta) # Null
       /\ "coverImage" \in DOMAIN result
       /\ result.coverImage = CoverOf(CandidatePath(opf, opf.coverMeta))

\* a candidate id leads to an entry that can be loaded
Loads(opf, id) == CandidatePath(opf, id) # Null /\ Readable(CandidatePath(opf, id))

\* C9: a strategy whose candidate does not resolve (no manifest entry, no
\* href, path absent or not loadable) falls through to the next strategy, so
\* the cover is that of the first strategy whose candidate loads, and no
\* failure of the parse comes from the cover.
C9_CoverFallsThrough ==
  /\ (EpubCall /\ pc = "catch" /\ thrown = ErrCorrupt) => tasks # << >>
  /\ PastCover =>
       LET opf == Opf(file, opfPath)
           cands == CoverCandidates(opf)
       IN (\E k \in 1..3 : Loads(opf, cands[k])) =>
             coverImage = CoverOf(CandidatePath(opf,
                 cands[CHOOSE k \in 1..3 : Loads(opf, cands[k])
                                             /\ \A m \in 1..(k - 1) : ~Loads(opf, cands[m])]))

\* C10: resolve(base, ".") returns the same path as resolve(base, "").
C10_DotEqualsEmpty ==
  (fnOut # Null /\ fnIn.rel = ".") => fnOut = resolvePath(fnIn.base, "")

\* the directory of a base path: its '/'-separated segments without the last
DirectoryOf(base) ==
  LET segs == Split(base, "/") IN SubSeq(segs, 1, Len(segs) - 1)

RECURSIVE StackAfter(_, _, _)
\* the segments that remain once the first n segments of a reference have
\* been applied to a directory: '.' changes nothing, '..' removes the last
\* remaining segment if there is one, any other segment is appended
StackAfter(dir, segs, n) ==
  IF n = 0 THEN dir
  ELSE LET before == StackAfter(dir, segs, n - 1) IN
       CASE segs[n] = "." -> before
         [] segs[n] = ".." -> IF before = << >> THEN before
                              ELSE SubSeq(before, 1, Len(before) - 1)
         [] OTHER -> before \o << segs[n] >>

\* C11: resolve(base, rel) is the relative resolution that drops the last
\* segment of base and applies the segments of rel one by one ('.' a no-op,
\* '..' removing the last remaining segment and ignored when none remains,
\* any other segment appended); resolve("a/b/c.html", "../x") = "a/x".
C11_RelativeResolution ==
  fnOut # Null =>
    /\ fnOut = Join(StackAfter(DirectoryOf(fnIn.base), Split(fnIn.rel, "/"),
                               Len(Split(fnIn.rel, "/"))), "/")
    /\ (fnIn.base = "a/b/c.html" /\ fnIn.rel = "../x") => fnOut = "a/x"
    /\ (fnIn.base = "a" /\ fnIn.rel = "../../x") => fnOut = "x"

\* C11 witness: the example of the claim has been resolved
C11_Witness ==
  fnOut = "a/x" /\ fnIn.base = "a/b/c.html" /\ fnIn.rel = "../x"

\* a reference without its query and fragment suffix: the text before the
\* first '?' or '#'
WithoutSuffix(ref) ==
  LET cut == {k \in 1..Len(ref) : CharAt(ref, k) \in {"?", "#"}}
  IN IF cut = {} THEN ref
     ELSE SubSeq(ref, 1, (CHOOSE k \in cut : \A m \in cut : k <= m) - 1)

\* C12: at every use of resolvePath a reference resolves to the archive path
\* of the reference without its '?...' and '#...' suffix: the path a chapter
\* task reads is that of its manifest href without the suffix, and the path
\* an image task reads is that of its src without the suffix.
C12_SuffixIgnoredAtEveryUse ==
  Dispatched =>
    \A i \in 1..Len(tasks) :
      LET opf == Opf(file, opfPath)
          k == ItemIndex(opf.manifest, opf.spine[i])
      IN /\ (k # 0 /\ Truthy(opf.manifest[k].href)) =>
               tasks[i].path = resolvePath(opfPath, WithoutSuffix(opf.manifest[k].href))
         /\ tasks[i].st = "images" =>
               \A j \in 1..Len(tasks[i].imgs) :
                  LET src == SourceImgs(i)[j].src IN
                  (IsLocalSrc(src) /\ tasks[i].imgs[j].wait # Null) =>
                     tasks[i].imgs[j].wait = resolvePath(tasks[i].path, WithoutSuffix(src))

\* a returned record of the PDF parser
PdfDone == pc = "done" /\ IsRecord /\ result.type = "pdf"

\* the toc of the returned record (no entries when the field is absent)
TocOf(rec) == IF "toc" \in DOMAIN rec THEN rec.toc ELSE << >>

RECURSIVE OutlineNodes(_)
\* every node of an outline, at any depth
OutlineNodes(nodes) ==
  UNION {{nodes[k]} \cup OutlineNodes(nodes[k].items) : k \in 1..Len(nodes)}

RECURSIVE OutlinePairs(_, _)
\* the outline nodes paired with the entries at the same position of the toc
OutlinePairs(nodes, entries) ==
  UNION {{<<nodes[k], entries[k]>>}
         \cup (IF "children" \in DOMAIN entries[k]
               THEN OutlinePairs(nodes[k].items, entries[k].children) ELSE {})
         : k \in 1..Min(Len(nodes), Len(entries))}

\* the destination array of a node: looked up by name, or the explicit one
DestinationOf(node) ==
  IF node.dest.kind = "named" THEN GetDestination(node.dest.name)
  ELSE [st |-> "ok", found |-> node.dest.kind = "explicit", arr |-> node.dest.arr]

\* the destination of a node resolves to a page of the document
Resolves(node) ==
  /\ DestinationOf(node).st = "ok" /\ DestinationOf(node).found
  /\ DestinationOf(node).arr # << >>
  /\ GetPageIndex(DestinationOf(node).arr[1]) >= 0

\* C13: the entry of every outline node whose destination resolves has as
\* page number the 0-based page index of the destination's first component
\* plus 1, hence a page number of at least 1.
C13_PageIsIndexPlusOne ==
  PdfDone =>
    \A node \in OutlineNodes(GetOutline(file.body)) :
      Resolves(node) =>
        \E pair \in OutlinePairs(GetOutline(file.body), TocOf(result)) :
          /\ pair[1] = node
          /\ pair[2].page = GetPageIndex(DestinationOf(node).arr[1]) + 1
          /\ pair[2].page >= 1

\* C13 witness: a returned outline with an explicit destination on page
\* index 0 and a named destination on page index 3
C13_Witness ==
  /\ PdfDone /\ file.body.outline = "tree"
  /\ result.toc[1].page = 1 /\ result.toc[2].page = 4

\* C14: a node whose destination does not resolve (none, a failed named
\* lookup, a failed page-index lookup) never fails the parse: its entry has
\* page number 0, the node's title as label and the entries of its child
\* nodes, and every other node of the outline still has its entry.
C14_OutlineFailureIsolated ==
  /\ (file.body.kind = "pdf" /\ file.body.valid /\ file.body.outline \in {"tree", "chain"}
      /\ attempts = << "pdf" >>) => pc \notin {"catch", "failed"}
  /\ PdfDone =>
       \A node \in OutlineNodes(GetOutline(file.body)) :
          \E pair \in OutlinePairs(GetOutline(file.body), TocOf(result)) :
            /\ pair[1] = node
            /\ pair[2].label = node.title
            /\ ~Resolves(node) => pair[2].page = 0
            /\ node.items # << >> =>
                 /\ "children" \in DOMAIN pair[2]
                 /\ Len(pair[2].children) = Len(node.items)

\* C14 witness: a returned outline whose first node has a named destination
\* whose lookup fails, with the entries of its descendants and of its next
\* sibling resolved
C14_Witness ==
  /\ PdfDone /\ file.body.outline = "chain"
  /\ result.toc[1].page = 0 /\ result.toc[1].label = "Root"
  /\ result.toc[1].children[1].page = 0
  /\ result.toc[1].children[1].children[1].page = 2
  /\ result.toc[2].page = 4

\* a returned record of the EPUB parser
EpubDone == pc = "done" /\ IsRecord /\ result.type = "epub"

\* the navigation points parseNcxToc was given (none when no navigation
\* document was read)
NavMapOf ==
  LET path == NcxPath(file.body, opfPath, Opf(file, opfPath))
  IN IF path = Null THEN << >> ELSE ZipFile(file.body, path).data

RECURSIVE NcxPairs(_, _)
\* the navigation points paired with the entries at the same position of the toc
NcxPairs(points, entries) ==
  UNION {{<<points[k], entries[k]>>}
         \cup (IF "children" \in DOMAIN entries[k]
               THEN NcxPairs(points[k].points, entries[k].children) ELSE {})
         : k \in 1..Min(Len(points), Len(entries))}

RECURSIVE TocEntries(_)
\* every entry of a toc, at any depth
TocEntries(entries) ==
  UNION {{entries[k]}
         \cup (IF "children" \in DOMAIN entries[k] THEN TocEntries(entries[k].children) ELSE {})
         : k \in 1..Len(entries)}

\* C15: in every toc produced, from a PDF outline or from an EPUB navigation
\* map, the entry of a node without nested nodes has no children field, the
\* entry of a node with nested nodes has a non-empty children list, and no
\* entry has a children field that is present and empty.
C15_ChildrenAbsentOrNonEmpty ==
  /\ (PdfDone \/ EpubDone) =>
        \A e \in TocEntries(TocOf(result)) : "children" \in DOMAIN e => e.children # << >>
  /\ PdfDone =>
        \A pair \in OutlinePairs(GetOutline(file.body), TocOf(result)) :
           "children" \in DOMAIN pair[2] <=> pair[1].items # << >>
  /\ EpubDone =>
        \A pair \in NcxPairs(NavMapOf, TocOf(result)) :
           "children" \in DOMAIN pair[2] <=> pair[1].points # << >>

\* C15 witness: a returned EPUB toc with a nested entry and a leaf entry at
\* the top level
C15_Witness ==
  /\ EpubDone /\ Len(result.toc) = 3
  /\ "children" \in DOMAIN result.toc[1] /\ Len(result.toc[1].children) = 2
  /\ "children" \notin DOMAIN result.toc[3]

\* C16: in the toc of the navigation map, every entry whose navigation point
\* has no child points carries an empty children list, not an absent one.
C16_LeafHasEmptyChildren ==
  EpubDone =>
    \A pair \in NcxPairs(NavMapOf, TocOf(result)) :
       pair[1].points = << >> => ("children" \in DOMAIN pair[2] /\ pair[2].children = << >>)

\* the children of an entry, none when the field is absent
ChildrenOf(e) == IF "children" \in DOMAIN e THEN e.children ELSE << >>

RECURSIVE IsoOutline(_, _)
\* the entries mirror the outline nodes: one entry per node, in order, with
\* the node's title, and the same holds between child nodes and children
IsoOutline(nodes, entries) ==
  /\ Len(entries) = Len(nodes)
  /\ \A k \in 1..Len(nodes) :
        /\ entries[k].label = nodes[k].title
        /\ IsoOutline(nodes[k].items, ChildrenOf(entries[k]))

RECURSIVE IsoNcx(_, _)
\* the entries mirror the navigation points: one entry per point, in order,
\* carrying the point's own label and the file part of its own target where
\* it has them, and the same holds between child points and children
IsoNcx(points, entries) ==
  /\ Len(entries) = Len(points)
  /\ \A k \in 1..Len(points) :
        /\ points[k].label # Null => entries[k].label = points[k].label
        /\ points[k].src # Null => entries[k].href = Last(Split(points[k].src, "/"))
        /\ IsoNcx(points[k].points, ChildrenOf(entries[k]))

\* C17: the toc is isomorphic to its source tree in both extractors: one
\* entry per source node, siblings in source order, and the children of an
\* entry are the entries of the node's direct children, at every depth.
C17_TocIsomorphicToSource ==
  /\ PdfDone => IsoOutline(GetOutline(file.body), TocOf(result))
  /\ EpubDone => IsoNcx(NavMapOf, TocOf(result))

\* C17 witness: a returned EPUB toc three levels deep whose second top-level
\* entry has one child
C17_Witness ==
  /\ EpubDone /\ file.body.ncx = "tree" /\ Len(result.toc) = 3
  /\ result.toc[1].children[1].children[1].label = "One.a"
  /\ Len(result.toc[2].children) = 1 /\ result.toc[2].children[1].label = "Three"

\* C18: no entry at any depth carries both locators: every entry of a PDF toc
\* has a page number and no href, every entry of an EPUB toc has an href and
\* no page number.
C18_OneLocatorKind ==
  /\ PdfDone => \A e \in TocEntries(TocOf(result)) :
                   "page" \in DOMAIN e /\ e.page \in Nat /\ "href" \notin DOMAIN e
  /\ EpubDone => \A e \in TocEntries(TocOf(result)) :
                   "href" \in DOMAIN e /\ "page" \notin DOMAIN e

\* C18 witness: a returned PDF toc with entries three levels deep
C18_Witness ==
  /\ PdfDone /\ file.body.outline = "tree"
  /\ Cardinality(TocEntries(result.toc)) = 9
  /\ result.toc[2].children[1].children[1].label = "Deep"

\* C19: getDocument is never given the buffer parsePdf keeps: it is given a
\* duplicate with the same bytes, so the kept buffer is never detached and
\* the pdfData of the returned record is the complete bytes of the file,
\* also when the library detached the buffer it was given.
C19_OpenGetsDuplicate ==
  /\ openData # 0 =>
       /\ openData # arrayBuffer
       /\ heap[openData].bytes = file.body
       /\ ~heap[arrayBuffer].detached
  /\ PdfDone => result.pdfData = file.body

\* C19 witness: a returned PDF record after the library detached the buffer
\* it was given
C19_Witness ==
  PdfDone /\ heap[openData].detached /\ result.pdfData = file.body

\* parsePdf is the parser called and the file could be read
PdfCall == attempts = << "pdf" >> /\ file.body.kind # "unreadable"

\* the external calls parsePdf awaits, failing for the file at hand
OpenFails == ~(file.body.kind = "pdf" /\ file.body.valid)
MetadataFails == ~OpenFails /\ file.body.meta = "fail"
OutlineFails == ~OpenFails /\ file.body.outline = "fail"

\* C20 as stated: a failure of any external call parsePdf awaits (open,
\* metadata, outline) is fatal: parsePdf fails with the PDF parse error and
\* returns no record.
C20_AnyPdfFailureFatal ==
  (PdfCall /\ (OpenFails \/ MetadataFails \/ OutlineFails)) =>
     /\ pc # "done"
     /\ pc \in {"catch", "failed"} => thrown = ErrPdf

\* C20 amended: a failure of the open call or of the outline call is fatal:
\* parsePdf fails with the PDF parse error and returns no record, and after
\* a failed open no further call is made; a failure of the metadata call
\* alone is absorbed: the record is returned with the title taken from the
\* file name and the author "Unknown Author".
C20_OpenOrOutlineFailureFatal ==
  /\ (PdfCall /\ (OpenFails \/ OutlineFails)) =>
        /\ pc # "done"
        /\ pc \in {"catch", "failed"} => thrown = ErrPdf
        /\ OpenFails => pc \notin {"pdf.meta", "pdf.outline"}
  /\ (PdfCall /\ MetadataFails /\ ~OutlineFails) =>
        /\ pc \notin {"catch", "failed"}
        /\ pc = "done" =>
             /\ result.title = StripSuffixI(file.name, ".pdf")
             /\ result.author = "Unknown Author"

\* C20 witness: the outline call of a PDF that opened has failed and
\* parseBook has failed with the PDF parse error
C20_Witness ==
  /\ PdfCall /\ OutlineFails /\ ~MetadataFails
  /\ pc = "failed" /\ result = [error |-> ErrPdf]

\* C21: parsePdf builds the toc only from an outline: the record of a
\* document without outline (none, or one without nodes) has no toc field,
\* not an empty list, and the record of a document with outline nodes has
\* the toc built from them.
C21_TocAbsentWithoutOutline ==
  PdfDone =>
    /\ GetOutline(file.body) = << >> => "toc" \notin DOMAIN result
    /\ GetOutline(file.body) # << >> =>
          "toc" \in DOMAIN result /\ Len(result.toc) = Len(GetOutline(file.body))

\* C21 witness: a returned PDF record of a document that has no outline
C21_Witness ==
  PdfDone /\ file.body.outline = "none" /\ "toc" \notin DOMAIN result

\* a returned record of the Markdown parser
MdDone == pc = "done" /\ attempts = << "markdown" >> /\ IsRecord

\* a line that, leading and trailing white space aside, starts with "# "
IsHeadingLine(line) == Len(Trim(line)) >= 2 /\ SubSeq(Trim(line), 1, 2) = "# "

\* the heading lines among the first 10 lines of a text, by line number
EarlyHeadings(text) ==
  {i \in 1..Len(Split(text, "\n")) : i <= 10 /\ IsHeadingLine(Split(text, "\n")[i])}

\* C22: parseMarkdown looks for a heading in the first 10 lines only: with
\* one, the title is the trimmed text after the "# " of the first such line;
\* a heading that first appears after line 10 is ignored and the title stays
\* the one derived from the file name; the author is always "Unknown".
C22_HeadingInFirstTenLines ==
  MdDone =>
    LET text == TextOf(file.body)
        early == EarlyHeadings(text)
    IN /\ result.author = "Unknown"
       /\ early # {} =>
            LET first == Trim(Split(text, "\n")[CHOOSE i \in early : \A j \in early : i <= j])
            IN result.title = Trim(SubSeq(first, 3, Len(first)))
       /\ early = {} => result.title # "" /\ StartsWith(file.name, result.title)

\* C22 witness: a returned Markdown record of a file whose only heading is
\* on line 11
C22_Witness ==
  /\ MdDone /\ EarlyHeadings(TextOf(file.body)) = {}
  /\ Len(Split(TextOf(file.body), "\n")) = 11
  /\ IsHeadingLine(Split(TextOf(file.body), "\n")[11])
  /\ result.title = "notes"

\* a file name without its extension: the text before its last '.'
NameWithoutExtension(name) ==
  IF LastIndexOf(name, ".") < 0 THEN name ELSE SubSeq(name, 1, LastIndexOf(name, "."))

\* C23: for every file given to the Markdown parser whose first 10 lines
\* hold no heading, the returned title is the file name without its extension.
C23_TitleIsNameWithoutExtension ==
  (MdDone /\ EarlyHeadings(TextOf(file.body)) = {}) =>
     result.title = NameWithoutExtension(file.name)

\* the file name of an archive path: the text after its last '/'
FileNameOf(path) ==
  IF LastIndexOf(path, "/") < 0 THEN path
  ELSE SubSeq(path, LastIndexOf(path, "/") + 2, Len(path))

\* C24: every loaded chapter is emitted as one wrapper element whose id is
\* the chapter's file name (the last segment of its resolved archive path)
\* and whose data-path is the full resolved archive path.
C24_WrapperIdIsFileName ==
  (Dispatched /\ pc = "done") =>
     /\ \A i \in 1..Len(tasks) :
          Loadable(i) =>
             /\ Len(tasks[i].value) = 1
             /\ tasks[i].value[1].id = FileNameOf(SpinePath(i))
             /\ tasks[i].value[1].path = SpinePath(i)
     /\ \A k \in 1..Len(Fragments(result.content)) :
          /\ Fragments(result.content)[k].id = FileNameOf(Fragments(result.content)[k].path)
          /\ \E i \in 1..Len(tasks) :
                Loadable(i) /\ tasks[i].value = << Fragments(result.content)[k] >>
     /\ Len(Fragments(result.content)) = Cardinality({i \in 1..Len(tasks) : Loadable(i)})

\* C24 witness: a returned content whose wrapper for OEBPS/text/ch2.html
\* has the id ch2.html
C24_Witness ==
  /\ Dispatched /\ pc = "done"
  /\ \E k \in 1..Len(Fragments(result.content)) :
        /\ Fragments(result.content)[k].path = "OEBPS/text/ch2.html"
        /\ Fragments(result.content)[k].id = "ch2.html"

\* a reference up to its first '#', and from it on
BeforeHash(ref) ==
  LET at == {k \in 1..Len(ref) : CharAt(ref, k) = "#"}
  IN IF at = {} THEN ref ELSE SubSeq(ref, 1, (CHOOSE k \in at : \A m \in at : k <= m) - 1)
FromHash(ref) == SubSeq(ref, Len(BeforeHash(ref)) + 1, Len(ref))

\* C25: the target of the entry of every navigation point is the point's
\* content reference reduced to file name plus fragment: the directories
\* before the file name are dropped and the fragment is kept as it is; so the
\* file-name part of an entry that targets a loaded spine chapter is the id
\* of that chapter's wrapper element.
C25_TargetIsFileNamePlusFragment ==
  EpubDone =>
    \A pair \in NcxPairs(NavMapOf, TocOf(result)) :
      pair[1].src # Null =>
        /\ pair[2].href = FileNameOf(BeforeHash(pair[1].src)) \o FromHash(pair[1].src)
        /\ \A i \in 1..Len(tasks) :
             (Loadable(i) /\ FileNameOf(SpinePath(i)) = FileNameOf(BeforeHash(pair[1].src))) =>
                BeforeHash(pair[2].href) = tasks[i].value[1].id

\* a file name without the given extension, compared without regard to case
NameWithout(name, ext) ==
  IF Len(name) >= Len(ext)
     /\ ToLowerCase(SubSeq(name, Len(name) - Len(ext) + 1, Len(name))) = ext
  THEN SubSeq(name, 1, Len(name) - Len(ext))
  ELSE name

\* the metadata of the file at hand lacks a title, an author
LacksTitle == file.body.meta \in {"none", "notitle", "blank"}
LacksAuthor == file.body.meta \in {"none", "noauthor", "blank"}

\* C26: a missing title or author never fails the parse: parseEpub returns
\* the file name without its '.epub' extension as title and "Unknown Author"
\* as author, and parsePdf falls back in the same way with '.pdf'.
C26_MetadataFallback ==
  /\ (attempts = << "epub" >> /\ file.body.kind = "zip" /\ pc \in {"catch", "failed"}) =>
        thrown \in {ErrNoContainer, ErrNoOpfPath, ErrNoOpf, ErrCorrupt}
  /\ (attempts = << "pdf" >> /\ file.body.kind = "pdf" /\ file.body.valid
      /\ file.body.outline # "fail") => pc \notin {"catch", "failed"}
  /\ EpubDone =>
        /\ LacksTitle => result.title = NameWithout(file.name, ".epub")
        /\ LacksAuthor => result.author = "Unknown Author"
  /\ PdfDone =>
        /\ LacksTitle => result.title = NameWithout(file.name, ".pdf")
        /\ LacksAuthor => result.author = "Unknown Author"

\* C26 witness: a returned EPUB record of a package that has an author and
\* no title
C26_Witness ==
  /\ EpubDone /\ file.body.meta = "notitle"
  /\ result.title = "book" /\ result.author = "H. Melville"

\* both calls of a pair have settled
BothSettled == Settled /\ suspended # NoCall /\ suspended.pc \in {"done", "failed"}

\* C27: two parseBook calls on the same file, run one after the other or
\* interleaved at their awaits in any order, with their archive reads
\* completing in any order, settle alike: both return equal records or both
\* fail with the same error.
C27_SameInputSameRecord ==
  BothSettled => result = suspended.result

\* C27 witness: two calls on the same archive have returned after their
\* chapter tasks settled in different orders
C27_Witness ==
  /\ BothSettled /\ IsRecord /\ result.type = "epub"
  /\ Len(settled) = 3 /\ settled # suspended.settled
  /\ result = suspended.result

RECURSIVE Pieces(_, _)
\* the parts of a content string between its separators: Pieces(s, << >>)
\* is s split at every separator token
Pieces(html, piece) ==
  IF Len(html) = 0 THEN << piece >>
  ELSE IF Head(html) = NL THEN << piece >> \o Pieces(Tail(html), << >>)
  ELSE Pieces(Tail(html), Append(piece, Head(html)))

\* C28: the content is the newline-join of one fragment per spine itemref,
\* in spine order: split at its separators it has as many parts as the spine
\* has itemrefs, part i is the wrapper of chapter i when that chapter is
\* loaded and empty when it is skipped or missing, so an omitted chapter
\* leaves its separator in the content.
C28_OneFragmentPerItemref ==
  (Dispatched /\ pc = "done") =>
     LET parts == Pieces(result.content, << >>) IN
     /\ Len(file.body.spine) = 0 => result.content = << >>
     /\ Len(file.body.spine) > 0 => Len(parts) = Len(file.body.spine)
     /\ \A i \in 1..Len(file.body.spine) :
          /\ Loadable(i) => Len(parts[i]) = 1 /\ parts[i][1].path = SpinePath(i)
          /\ ~Loadable(i) => parts[i] = << >>

\* C28 witness: a returned content of a three-entry spine whose first two
\* chapters are omitted: two separators, then the wrapper of the third
C28_Witness ==
  /\ Dispatched /\ pc = "done" /\ Len(file.body.spine) = 3
  /\ Len(result.content) = 3
  /\ result.content[1] = NL /\ result.content[2] = NL
  /\ "path" \in DOMAIN result.content[3]

\* C29: within one parsed EPUB no two wrapper elements of the content have
\* the same id, also when the spine names the same manifest item twice or
\* names files with the same file name in different directories.
C29_WrapperIdsUnique ==
  (Dispatched /\ pc = "done") =>
     LET frags == Fragments(result.content) IN
     \A k, m \in 1..Len(frags) : frags[k].id = frags[m].id => k = m

\* how far a call has come, by its position
StageOf(p) ==
  CASE p = "start" -> 0
    [] p \in {"txt.read", "md.read", "pdf.read", "epub.load"} -> 1
    [] p \in {"pdf.open", "epub.container"} -> 2
    [] p \in {"pdf.meta", "epub.opf"} -> 3
    [] p \in {"pdf.outline", "epub.cover"} -> 4
    [] p = "epub.dispatch" -> 5
    [] p = "epub.await" -> 6
    [] p = "epub.toc" -> 7
    [] p = "catch" -> 8
    [] p = "retry.txt" -> 9
    [] OTHER -> 10

\* how far a chapter task has come, by its state
TaskStageOf(st) ==
  CASE st = "reading" -> 0
    [] st = "images" -> 1
    [] OTHER -> 2

\* a step of a call never goes back: the position advances or stays, the
\* chapter tasks are created once and each only advances, and an image task
\* that has settled is not started again
NeverAgain ==
  /\ StageOf(pc') >= StageOf(pc)
  /\ pc # pc' => StageOf(pc') > StageOf(pc)
  /\ StageOf(pc) > 5 =>
        /\ Len(tasks') = Len(tasks)
        /\ \A i \in 1..Len(tasks) :
              /\ TaskStageOf(tasks'[i].st) >= TaskStageOf(tasks[i].st)
              /\ tasks'[i].path = tasks[i].path
              /\ (tasks[i].st = "images" /\ tasks'[i].st = "images") =>
                    \A j \in 1..Len(tasks[i].imgs) :
                       tasks[i].imgs[j].wait = Null => tasks'[i].imgs[j].wait = Null
              /\ TaskStageOf(tasks[i].st) = 2 => tasks'[i] = tasks[i]

\* C30: provided every collaborator call settles, every parseBook call
\* eventually settles with a record or an error, and on the way each chapter
\* task and each image task is dispatched at most once: no step returns to
\* an earlier position of the call or of a task.
C30_EveryCallSettles ==
  /\ <>Settled
  /\ [][NeverAgain]_vars

\* C30 witness: a call on an archive with two chapters and a nested
\* navigation map has returned with every task resolved
C30_Witness ==
  /\ pc = "done" /\ Len(tasks) = 2 /\ file.body.ncx = "tree"
  /\ \A i \in 1..Len(tasks) : tasks[i].st = "resolved"
  /\ Cardinality(TocEntries(TocOf(result))) = 7

====
